---- MODULE Spec2Model ----
(***************************************************************************)
(* Model of the sentiment aggregation and pump-phase classification        *)
(* engine of stock-sentiment-analyzer:                                     *)
(*   - PumpDetectionService (pump-detection.service.ts)                    *)
(*   - SentimentAggregatorService (sentiment-aggregator.service.ts)        *)
(*   - SentimentService (scoring of texts) and the stock routes            *)
(*   - UserTrackingService (tracked users and their picks)                 *)
(*   - classifyByMarketCap / isPennyStock (models/schema.ts)               *)
(*                                                                         *)
(* JavaScript numbers are modelled as exact rationals [n, d] in lowest     *)
(* terms with d > 0; the value with d = 0 is NaN (also what a read of a    *)
(* missing property, undefined, becomes in every arithmetic use).          *)
(* Floating-point rounding is not modelled.                                *)
(***************************************************************************)
EXTENDS Integers, Sequences, FiniteSets, TLC

(* ------------------------------------------------------------------ *)
(* Numbers                                                             *)
(* ------------------------------------------------------------------ *)
RECURSIVE GCD(_, _)
GCD(a, b) == IF b = 0 THEN a ELSE GCD(b, a % b)

Abs(x) == IF x < 0 THEN -x ELSE x

NaN == [n |-> 0, d |-> 0]

Rat(n, d) ==
  IF d = 0 THEN NaN
  ELSE LET g == GCD(Abs(n), Abs(d))
           s == IF d < 0 THEN -1 ELSE 1
       IN  [n |-> (s * n) \div g, d |-> (s * d) \div g]

Num(k) == [n |-> k, d |-> 1]

IsNum(a) == a.d > 0

RAdd(a, b) == IF IsNum(a) /\ IsNum(b) THEN Rat(a.n * b.d + b.n * a.d, a.d * b.d) ELSE NaN
RSub(a, b) == IF IsNum(a) /\ IsNum(b) THEN Rat(a.n * b.d - b.n * a.d, a.d * b.d) ELSE NaN
RMul(a, b) == IF IsNum(a) /\ IsNum(b) THEN Rat(a.n * b.n, a.d * b.d) ELSE NaN
\* x / 0 is NaN for x = 0 and an infinity otherwise; every division of the
\* modelled code whose divisor can be 0 has a dividend that is 0 or NaN then.
RDiv(a, b) == IF IsNum(a) /\ IsNum(b) THEN Rat(a.n * b.d, a.d * b.n) ELSE NaN
RAbs(a)    == IF IsNum(a) THEN [n |-> Abs(a.n), d |-> a.d] ELSE NaN

\* Comparisons with NaN are false, as in JavaScript.
RGt(a, b) == IsNum(a) /\ IsNum(b) /\ a.n * b.d > b.n * a.d
RLt(a, b) == IsNum(a) /\ IsNum(b) /\ a.n * b.d < b.n * a.d
RGe(a, b) == IsNum(a) /\ IsNum(b) /\ a.n * b.d >= b.n * a.d
RLe(a, b) == IsNum(a) /\ IsNum(b) /\ a.n * b.d <= b.n * a.d
REq(a, b) == IsNum(a) /\ IsNum(b) /\ a.n * b.d = b.n * a.d

\* Math.min / Math.max: NaN if either argument is NaN.
RMin(a, b) == IF IsNum(a) /\ IsNum(b) THEN (IF RLt(b, a) THEN b ELSE a) ELSE NaN
RMax(a, b) == IF IsNum(a) /\ IsNum(b) THEN (IF RGt(b, a) THEN b ELSE a) ELSE NaN

\* An optional value is a sequence of length 0 (undefined / null) or 1.
Opt(S) == {<<>>} \cup {<<x>> : x \in S}

(* ------------------------------------------------------------------ *)
(* State                                                               *)
(* ------------------------------------------------------------------ *)
VARIABLES
  ppc,        \* pump detection: "ready" before the call, "done" after it
  pinput,     \* arguments of detectPumpPhase
  presult,    \* PumpDetectionResult returned (NoResult before the call)
  apc,        \* aggregateSentiment: "idle", "fetching", "resolved", "rejected"
  promises,   \* the three fetch promises handed to Promise.all
  returned,   \* what each collaborator call did: "pending", "threw", "nothing", "data"
  order,      \* the sources in the order their fetches completed
  aresult,    \* AggregatedSentiment the call resolved with (NoAggregate before)
  pcalls,     \* the detectPumpPhase calls made so far: [input, result] each
  feeds,      \* what each collaborator had to offer: "pending", "threw",
              \* "unconfigured", "empty", "filtered" or "usable"
  spc,        \* scoring functions: "idle", "ready", or the function that ran
  sinput,     \* argument of the scoring function that ran
  sresult,    \* what it returned
  upc,          \* user tracking: "idle", "constructed", or the method that ran
  trackedUsers, \* Map key -> TrackedUser
  userPicks,    \* Map user id -> UserPick[]
  nextUserId,
  nextPickId,
  ureturned     \* what the method that ran returned

pumpVars  == <<ppc, pinput, presult, pcalls>>
aggVars   == <<apc, promises, returned, order, aresult, feeds>>
scoreVars == <<spc, sinput, sresult>>
trackVars == <<upc, trackedUsers, userPicks, nextUserId, nextPickId, ureturned>>
vars      == <<ppc, pinput, presult, apc, promises, returned, order, aresult,
               pcalls, feeds, spc, sinput, sresult,
               upc, trackedUsers, userPicks, nextUserId, nextPickId, ureturned>>

NoResult    == [phase |-> "unset"]
NoInput     == [sentiment |-> "unset"]
NoAggregate == [overallLabel |-> "unset"]
NoCall      == [argument |-> "unset"]
NoScore     == [label |-> "unset"]

(* ------------------------------------------------------------------ *)
(* PumpDetectionService                                                *)
(* ------------------------------------------------------------------ *)
PumpPhases == {"early", "mid", "late", "post", "none"}
Signals    == {"green", "yellow", "red"}

weights == <<Rat(4, 10), Rat(3, 10), Rat(2, 10), Rat(1, 10)>>

\* weights[i] || 0.1
weightAt(i) == IF i <= Len(weights) /\ weights[i].n # 0 THEN weights[i] ELSE Rat(1, 10)

\* the four changes with undefined / null filtered out, order kept
presentChanges(priceData) ==
  priceData.change1d \o priceData.change1w \o priceData.change2w \o priceData.change1m

RECURSIVE momentumLoop(_, _, _, _)
momentumLoop(changes, i, weightedSum, weightTotal) ==
  IF i > Len(changes) THEN RDiv(weightedSum, weightTotal)
  ELSE momentumLoop(changes, i + 1,
                    RAdd(weightedSum, RMul(changes[i], weightAt(i))),
                    RAdd(weightTotal, weightAt(i)))

calculatePriceMomentumNoGuard(priceData) ==
  momentumLoop(presentChanges(priceData), 1, Num(0), Num(0))

calculatePriceMomentum(priceData) ==
  LET changes == presentChanges(priceData)
  IN  IF Len(changes) = 0 THEN Num(0)
      ELSE momentumLoop(changes, 1, Num(0), Num(0))

isEarly(m) ==
  /\ m.mentionTrend = "rising"
  /\ RGt(m.sentimentScore, Rat(3, 10))
  /\ m.sentimentTrend = "improving"
  /\ RGt(m.priceMomentum, Num(2))
  /\ RLt(m.priceMomentum, Num(15))
  /\ RGt(m.volumeRatio, Rat(12, 10))

isMid(m) ==
  /\ RGt(m.sentimentScore, Rat(5, 10))
  /\ RGt(m.priceMomentum, Num(10))
  /\ RLt(m.priceMomentum, Num(30))
  /\ RGt(m.volumeRatio, Rat(15, 10))

isLate(m) ==
  /\ RGt(m.sentimentScore, Rat(7, 10))
  /\ RGt(m.priceMomentum, Num(25))
  /\ m.mentionTrend \in {"stable", "declining"}

isPost(m) ==
  /\ m.mentionTrend = "declining"
  /\ m.sentimentTrend = "declining"
  /\ RLt(m.priceMomentum, Num(-5))
  /\ RLt(m.volumeRatio, Rat(8, 10))

classifyPumpPhaseMidFirst(m) ==
  IF isMid(m) THEN "mid"
  ELSE IF isLate(m) THEN "late"
  ELSE IF isEarly(m) THEN "early"
  ELSE IF isPost(m) THEN "post"
  ELSE "none"

classifyPumpPhaseLateFirst(m) ==
  IF isEarly(m) THEN "early"
  ELSE IF isLate(m) THEN "late"
  ELSE IF isMid(m) THEN "mid"
  ELSE IF isPost(m) THEN "post"
  ELSE "none"

classifyPumpPhaseNoPost(m) ==
  IF isEarly(m) THEN "early"
  ELSE IF isMid(m) THEN "mid"
  ELSE IF isLate(m) THEN "late"
  ELSE "none"

classifyPumpPhase(m) ==
  IF isEarly(m) THEN "early"
  ELSE IF isMid(m) THEN "mid"
  ELSE IF isLate(m) THEN "late"
  ELSE IF isPost(m) THEN "post"
  ELSE "none"

\* the line classifyPumpPhase pushes onto reasoning
phaseReason(phase) ==
  CASE phase = "early" -> "early_pump_detected"
    [] phase = "mid"   -> "mid_pump_detected"
    [] phase = "late"  -> "late_pump_detected"
    [] phase = "post"  -> "post_pump_detected"
    [] OTHER           -> "no_pump_activity"

determineSignalNoRedPhase(phase, m) ==
  IF phase = "early" THEN "green"
  ELSE IF /\ phase = "none"
          /\ RGt(m.sentimentScore, Rat(4, 10))
          /\ RGt(m.priceMomentum, Num(0))
          /\ RLt(m.priceMomentum, Num(10))
       THEN "green"
  ELSE IF RLt(m.sentimentScore, Rat(-3, 10)) \/ RLt(m.priceMomentum, Num(-10))
       THEN "red"
  ELSE "yellow"

determineSignalMidRed(phase, m) ==
  IF phase = "early" THEN "green"
  ELSE IF /\ phase = "none"
          /\ RGt(m.sentimentScore, Rat(4, 10))
          /\ RGt(m.priceMomentum, Num(0))
          /\ RLt(m.priceMomentum, Num(10))
       THEN "green"
  ELSE IF phase = "mid" \/ phase = "late" \/ phase = "post" THEN "red"
  ELSE IF RLt(m.sentimentScore, Rat(-3, 10)) \/ RLt(m.priceMomentum, Num(-10))
       THEN "red"
  ELSE "yellow"

determineSignal(phase, m) ==
  IF phase = "early" THEN "green"
  ELSE IF /\ phase = "none"
          /\ RGt(m.sentimentScore, Rat(4, 10))
          /\ RGt(m.priceMomentum, Num(0))
          /\ RLt(m.priceMomentum, Num(10))
       THEN "green"
  ELSE IF phase = "late" \/ phase = "post" THEN "red"
  ELSE IF RLt(m.sentimentScore, Rat(-3, 10)) \/ RLt(m.priceMomentum, Num(-10))
       THEN "red"
  ELSE "yellow"

calculateConfidenceRisingOnly(m) ==
  LET sentimentStrength == RAbs(m.sentimentScore)
      c1 == RMul(sentimentStrength, Rat(3, 10))
      volumeConfidence == RMin(Num(1), RAbs(RSub(m.volumeRatio, Num(1))))
      c2 == RAdd(c1, RMul(volumeConfidence, Rat(25, 100)))
      momentumStrength == RMin(Num(1), RDiv(RAbs(m.priceMomentum), Num(20)))
      c3 == RAdd(c2, RMul(momentumStrength, Rat(25, 100)))
      trendsAligned == m.sentimentTrend = "improving" /\ m.mentionTrend = "rising"
      c4 == RAdd(c3, IF trendsAligned THEN Rat(2, 10) ELSE Rat(1, 10))
  IN  RMin(Num(1), c4)

calculateConfidence(m) ==
  LET sentimentStrength == RAbs(m.sentimentScore)
      c1 == RMul(sentimentStrength, Rat(3, 10))
      volumeConfidence == RMin(Num(1), RAbs(RSub(m.volumeRatio, Num(1))))
      c2 == RAdd(c1, RMul(volumeConfidence, Rat(25, 100)))
      momentumStrength == RMin(Num(1), RDiv(RAbs(m.priceMomentum), Num(20)))
      c3 == RAdd(c2, RMul(momentumStrength, Rat(25, 100)))
      trendsAligned ==
        \/ (m.sentimentTrend = "improving" /\ m.mentionTrend = "rising")
        \/ (m.sentimentTrend = "declining" /\ m.mentionTrend = "declining")
      c4 == RAdd(c3, IF trendsAligned THEN Rat(2, 10) ELSE Rat(1, 10))
  IN  RMin(Num(1), c4)

\* detectPumpPhase(sentiment, priceData, mentionCount,
\*                 previousMentionCount?, previousSentiment?)
detectPumpPhase(sentiment, priceData, mentionCount, previousMentionCount, previousSentiment) ==
  LET sentimentChange ==
        IF Len(previousSentiment) = 1
        THEN RSub(sentiment.score, previousSentiment[1].score) ELSE Num(0)
      sentimentTrend ==
        IF Len(previousSentiment) = 1 /\ RGt(sentimentChange, Rat(1, 10)) THEN "improving"
        ELSE IF Len(previousSentiment) = 1 /\ RLt(sentimentChange, Rat(-1, 10)) THEN "declining"
        ELSE "stable"
      r1 == IF sentimentTrend = "improving" THEN <<"sentiment_improving">>
            ELSE IF sentimentTrend = "declining" THEN <<"sentiment_declining">>
            ELSE <<>>
      \* previousMentionCount && previousMentionCount > 0
      hasPrevMentions ==
        Len(previousMentionCount) = 1 /\ previousMentionCount[1] # 0 /\ previousMentionCount[1] > 0
      mentionChange ==
        IF hasPrevMentions
        THEN RMul(RDiv(Num(mentionCount - previousMentionCount[1]), Num(previousMentionCount[1])),
                  Num(100))
        ELSE Num(0)
      mentionTrend ==
        IF hasPrevMentions /\ RGt(mentionChange, Num(20)) THEN "rising"
        ELSE IF hasPrevMentions /\ RLt(mentionChange, Num(-20)) THEN "declining"
        ELSE "stable"
      r2 == IF mentionTrend = "rising" THEN <<"mentions_surging">>
            ELSE IF mentionTrend = "declining" THEN <<"mentions_declining">>
            ELSE <<>>
      priceMomentum == calculatePriceMomentum(priceData)
      r3 == <<"price_momentum">>
      volumeRatio ==
        IF priceData.avgVolume > 0
        THEN RDiv(Num(priceData.volume), Num(priceData.avgVolume)) ELSE Num(1)
      r4 == IF RGt(volumeRatio, Rat(15, 10)) THEN <<"volume_above_average">>
            ELSE IF RLt(volumeRatio, Rat(5, 10)) THEN <<"volume_below_average">>
            ELSE <<>>
      metrics == [sentimentScore |-> sentiment.score,
                  sentimentTrend |-> sentimentTrend,
                  mentionVolume  |-> mentionCount,
                  mentionTrend   |-> mentionTrend,
                  priceMomentum  |-> priceMomentum,
                  volumeRatio    |-> volumeRatio]
      phase == classifyPumpPhase(metrics)
      signal == determineSignal(phase, metrics)
      confidence == calculateConfidence(metrics)
  IN  [phase      |-> phase,
       signal     |-> signal,
       confidence |-> confidence,
       reasoning  |-> r1 \o r2 \o r3 \o r4 \o <<phaseReason(phase)>>,
       metrics    |-> metrics]

(* ------------------------------------------------------------------ *)
(* Inputs of detectPumpPhase                                           *)
(* ------------------------------------------------------------------ *)
MaxVolumeSteps == 4

ScoreTenths    == {-4, -3, 0, 3, 4, 5, 6, 7, 8}
PrevTenths     == {2, 9}
MentionCounts  == {0, 80, 150}
PrevMentions   == {0, 100}
ChangeVals     == {-12, 30}
Volumes        == {5 * k : k \in 0..MaxVolumeSteps}
AvgVolumes     == {0, 10}

Sentiments     == {[score |-> Rat(k, 10)] : k \in ScoreTenths}
PrevSentiments == {[score |-> Rat(k, 10)] : k \in PrevTenths}
Changes        == {Num(c) : c \in ChangeVals}

PriceData ==
  [change1d : Opt(Changes), change1w : Opt(Changes),
   change2w : Opt(Changes), change1m : Opt(Changes),
   volume : Volumes, avgVolume : AvgVolumes]

PumpInputs ==
  [sentiment : Sentiments, priceData : PriceData, mentionCount : MentionCounts,
   previousMentionCount : Opt(PrevMentions), previousSentiment : Opt(PrevSentiments)]

(* ------------------------------------------------------------------ *)
(* Specification of the classifier: one call on arbitrary arguments    *)
(* ------------------------------------------------------------------ *)
AggIdle ==
  /\ apc = "idle"
  /\ promises = [s \in {} |-> s]
  /\ returned = [s \in {} |-> s]
  /\ order = <<>>
  /\ aresult = NoAggregate
  /\ feeds = [s \in {} |-> s]

PumpIdle ==
  /\ ppc = "idle"
  /\ pinput = NoInput
  /\ presult = NoResult
  /\ pcalls = <<>>

ScoreIdle ==
  /\ spc = "idle"
  /\ sinput = NoCall
  /\ sresult = NoScore

TrackIdle ==
  /\ upc = "idle"
  /\ trackedUsers = [k \in {} |-> k]
  /\ userPicks = [i \in {} |-> i]
  /\ nextUserId = 1
  /\ nextPickId = 1
  /\ ureturned = NoCall

InitPump ==
  /\ ppc = "ready"
  /\ pinput \in PumpInputs
  /\ presult = NoResult
  /\ pcalls = <<>>
  /\ AggIdle
  /\ ScoreIdle
  /\ TrackIdle

ClassifyKeepingReasoning ==
  /\ ppc = "ready"
  /\ LET r == detectPumpPhase(pinput.sentiment, pinput.priceData, pinput.mentionCount,
                              pinput.previousMentionCount, pinput.previousSentiment)
         kept == IF presult = NoResult THEN <<>> ELSE presult.reasoning
     IN  presult' = [r EXCEPT !.reasoning = kept \o @]
  /\ pcalls' = Append(pcalls, [input |-> pinput, result |-> presult'])
  /\ ppc' = "done"
  /\ UNCHANGED <<pinput, aggVars, scoreVars, trackVars>>

ClassifyMissingPreviousAsZero ==
  /\ ppc = "ready"
  /\ presult' = detectPumpPhase(pinput.sentiment, pinput.priceData, pinput.mentionCount,
                                pinput.previousMentionCount,
                                IF pinput.previousSentiment = <<>>
                                THEN <<[score |-> Num(0)]>> ELSE pinput.previousSentiment)
  /\ pcalls' = Append(pcalls, [input |-> pinput, result |-> presult'])
  /\ ppc' = "done"
  /\ UNCHANGED <<pinput, aggVars, scoreVars, trackVars>>

Classify ==
  /\ ppc = "ready"
  /\ presult' = detectPumpPhase(pinput.sentiment, pinput.priceData, pinput.mentionCount,
                                pinput.previousMentionCount, pinput.previousSentiment)
  /\ pcalls' = Append(pcalls, [input |-> pinput, result |-> presult'])
  /\ ppc' = "done"
  /\ UNCHANGED <<pinput, aggVars, scoreVars, trackVars>>

NextPump == Classify

SpecPump == InitPump /\ [][NextPump]_vars

(* ------------------------------------------------------------------ *)
(* Specification of repeated calls: the routes call detectPumpPhase on *)
(* the one pumpDetectionService instance again and again.              *)
(* ------------------------------------------------------------------ *)
MaxCalls == 3

RepeatPrices ==
  [flat    |-> [change1d |-> <<>>, change1w |-> <<>>, change2w |-> <<>>,
                change1m |-> <<>>, volume |-> 0, avgVolume |-> 0],
   rising  |-> [change1d |-> <<Num(30)>>, change1w |-> <<Num(-12)>>, change2w |-> <<>>,
                change1m |-> <<>>, volume |-> 20, avgVolume |-> 10],
   peaked  |-> [change1d |-> <<Num(30)>>, change1w |-> <<>>, change2w |-> <<>>,
                change1m |-> <<>>, volume |-> 10, avgVolume |-> 10],
   falling |-> [change1d |-> <<Num(-12)>>, change1w |-> <<>>, change2w |-> <<>>,
                change1m |-> <<>>, volume |-> 5, avgVolume |-> 10]]

RepeatInputs ==
  {[sentiment |-> [score |-> Num(0)], priceData |-> RepeatPrices.flat, mentionCount |-> 0,
    previousMentionCount |-> <<>>, previousSentiment |-> <<>>],
   [sentiment |-> [score |-> Rat(6, 10)], priceData |-> RepeatPrices.rising,
    mentionCount |-> 150, previousMentionCount |-> <<100>>,
    previousSentiment |-> <<[score |-> Rat(2, 10)]>>],
   [sentiment |-> [score |-> Rat(6, 10)], priceData |-> RepeatPrices.rising,
    mentionCount |-> 150, previousMentionCount |-> <<>>, previousSentiment |-> <<>>],
   [sentiment |-> [score |-> Rat(8, 10)], priceData |-> RepeatPrices.peaked,
    mentionCount |-> 80, previousMentionCount |-> <<>>, previousSentiment |-> <<>>],
   [sentiment |-> [score |-> Rat(3, 10)], priceData |-> RepeatPrices.falling,
    mentionCount |-> 0, previousMentionCount |-> <<100>>,
    previousSentiment |-> <<[score |-> Rat(9, 10)]>>],
   [sentiment |-> [score |-> Rat(-4, 10)], priceData |-> RepeatPrices.flat,
    mentionCount |-> 80, previousMentionCount |-> <<100>>, previousSentiment |-> <<>>]}

InitCalls ==
  /\ ppc = "ready"
  /\ pinput \in RepeatInputs
  /\ presult = NoResult
  /\ pcalls = <<>>
  /\ AggIdle
  /\ ScoreIdle
  /\ TrackIdle

\* the caller comes back with the arguments of its next call
CallAgain ==
  \E input \in RepeatInputs :
    /\ ppc = "done"
    /\ Len(pcalls) < MaxCalls
    /\ pinput' = input
    /\ ppc' = "ready"
    /\ UNCHANGED <<presult, pcalls, aggVars, scoreVars, trackVars>>

NextCalls ==
  \/ Classify
  \/ CallAgain

SpecCalls == InitCalls /\ [][NextCalls]_vars

(* ------------------------------------------------------------------ *)
(* Specification of the HTTP routes that classify a stock: each calls  *)
(* detectPumpPhase(sentiment, priceData, mentionCount) once per stock, *)
(* on whatever sentiment, price data and mention count it gathered.    *)
(* ------------------------------------------------------------------ *)
Routes == {"analyze", "batch-analyze", "top-today"}

\* what a route has gathered for one stock when it calls the classifier
RouteInputs ==
  [sentiment : Sentiments, priceData : PriceData, mentionCount : MentionCounts]

InitRoutes ==
  /\ ppc = "ready"
  /\ pinput \in RouteInputs
  /\ presult = NoResult
  /\ pcalls = <<>>
  /\ AggIdle
  /\ ScoreIdle
  /\ TrackIdle

AnalyzeWithHistory ==
  /\ ppc = "ready"
  /\ presult' = detectPumpPhase(pinput.sentiment, pinput.priceData, pinput.mentionCount,
                                <<100>>, <<[score |-> Rat(2, 10)]>>)
  /\ pcalls' = Append(pcalls, [input |-> pinput, result |-> presult'])
  /\ ppc' = "analyze"
  /\ UNCHANGED <<pinput, aggVars, scoreVars, trackVars>>

\* GET /:ticker/analyze
Analyze ==
  /\ ppc = "ready"
  /\ presult' = detectPumpPhase(pinput.sentiment, pinput.priceData, pinput.mentionCount,
                                <<>>, <<>>)
  /\ pcalls' = Append(pcalls, [input |-> pinput, result |-> presult'])
  /\ ppc' = "analyze"
  /\ UNCHANGED <<pinput, aggVars, scoreVars, trackVars>>

\* POST /batch-analyze, for one of the tickers
BatchAnalyze ==
  /\ ppc = "ready"
  /\ presult' = detectPumpPhase(pinput.sentiment, pinput.priceData, pinput.mentionCount,
                                <<>>, <<>>)
  /\ pcalls' = Append(pcalls, [input |-> pinput, result |-> presult'])
  /\ ppc' = "batch-analyze"
  /\ UNCHANGED <<pinput, aggVars, scoreVars, trackVars>>

\* GET /top-today, for one of the top tickers
TopToday ==
  /\ ppc = "ready"
  /\ presult' = detectPumpPhase(pinput.sentiment, pinput.priceData, pinput.mentionCount,
                                <<>>, <<>>)
  /\ pcalls' = Append(pcalls, [input |-> pinput, result |-> presult'])
  /\ ppc' = "top-today"
  /\ UNCHANGED <<pinput, aggVars, scoreVars, trackVars>>

NextRoutes ==
  \/ Analyze
  \/ BatchAnalyze
  \/ TopToday

SpecRoutes == InitRoutes /\ [][NextRoutes]_vars

(* ------------------------------------------------------------------ *)
(* SentimentService (sentiment.service.ts)                             *)
(* A text is [blank, vader]: blank when empty or whitespace only,      *)
(* vader the polarity_scores the lexicon analyzer gives for it.        *)
(* ------------------------------------------------------------------ *)
labelOf(score) ==
  IF RGe(score, Rat(5, 100)) THEN "positive"
  ELSE IF RLe(score, Rat(-5, 100)) THEN "negative"
  ELSE "neutral"

neutralZero ==
  [score |-> Num(0), label |-> "neutral", confidence |-> Num(0),
   breakdown |-> [positive |-> Num(0), neutral |-> Num(1), negative |-> Num(0)]]

analyzeSentimentNoBlankCheck(text) ==
  LET result == text.vader
  IN  [score |-> result.compound,
       label |-> labelOf(result.compound),
       confidence |-> RAbs(result.compound),
       breakdown |-> [positive |-> result.pos, neutral |-> result.neu,
                      negative |-> result.neg]]

analyzeSentiment(text) ==
  IF text.blank THEN neutralZero
  ELSE LET result == text.vader
       IN  [score |-> result.compound,
            label |-> labelOf(result.compound),
            confidence |-> RAbs(result.compound),
            breakdown |-> [positive |-> result.pos, neutral |-> result.neu,
                           negative |-> result.neg]]

RECURSIVE RSumFrom(_, _)
RSumFrom(xs, i) == IF i > Len(xs) THEN Num(0) ELSE RAdd(xs[i], RSumFrom(xs, i + 1))
\* reduce((sum, x) => sum + x, 0) and the += loops over an array
RSum(xs) == RSumFrom(xs, 1)

analyzeWeightedNoClamp(items) ==
  IF Len(items) = 0 THEN neutralZero
  ELSE LET sentiment == [i \in 1..Len(items) |-> analyzeSentiment(items[i].text)]
           weight == [i \in 1..Len(items) |-> items[i].weight]
           totalWeight == RSum(weight)
           weightedScore ==
             RSum([i \in 1..Len(items) |-> RMul(sentiment[i].score, weight[i])])
           weightedPositive ==
             RSum([i \in 1..Len(items) |-> RMul(sentiment[i].breakdown.positive, weight[i])])
           weightedNeutral ==
             RSum([i \in 1..Len(items) |-> RMul(sentiment[i].breakdown.neutral, weight[i])])
           weightedNegative ==
             RSum([i \in 1..Len(items) |-> RMul(sentiment[i].breakdown.negative, weight[i])])
           score == RDiv(weightedScore, totalWeight)
       IN  [score |-> score,
            label |-> labelOf(score),
            confidence |-> RAbs(score),
            breakdown |-> [positive |-> RDiv(weightedPositive, totalWeight),
                           neutral  |-> RDiv(weightedNeutral, totalWeight),
                           negative |-> RDiv(weightedNegative, totalWeight)]]

analyzeWeightedNeutralUnweighted(items) ==
  IF Len(items) = 0 THEN neutralZero
  ELSE LET sentiment == [i \in 1..Len(items) |-> analyzeSentiment(items[i].text)]
           weight == [i \in 1..Len(items) |-> RMax(Num(1), items[i].weight)]
           totalWeight == RSum(weight)
           weightedScore ==
             RSum([i \in 1..Len(items) |-> RMul(sentiment[i].score, weight[i])])
           weightedPositive ==
             RSum([i \in 1..Len(items) |-> RMul(sentiment[i].breakdown.positive, weight[i])])
           weightedNeutral ==
             RSum([i \in 1..Len(items) |-> sentiment[i].breakdown.neutral])
           weightedNegative ==
             RSum([i \in 1..Len(items) |-> RMul(sentiment[i].breakdown.negative, weight[i])])
           score == RDiv(weightedScore, totalWeight)
       IN  [score |-> score,
            label |-> labelOf(score),
            confidence |-> RAbs(score),
            breakdown |-> [positive |-> RDiv(weightedPositive, totalWeight),
                           neutral  |-> RDiv(weightedNeutral, totalWeight),
                           negative |-> RDiv(weightedNegative, totalWeight)]]

analyzeWeighted(items) ==
  IF Len(items) = 0 THEN neutralZero
  ELSE LET sentiment == [i \in 1..Len(items) |-> analyzeSentiment(items[i].text)]
           weight == [i \in 1..Len(items) |-> RMax(Num(1), items[i].weight)]
           totalWeight == RSum(weight)
           weightedScore ==
             RSum([i \in 1..Len(items) |-> RMul(sentiment[i].score, weight[i])])
           weightedPositive ==
             RSum([i \in 1..Len(items) |-> RMul(sentiment[i].breakdown.positive, weight[i])])
           weightedNeutral ==
             RSum([i \in 1..Len(items) |-> RMul(sentiment[i].breakdown.neutral, weight[i])])
           weightedNegative ==
             RSum([i \in 1..Len(items) |-> RMul(sentiment[i].breakdown.negative, weight[i])])
           score == RDiv(weightedScore, totalWeight)
       IN  [score |-> score,
            label |-> labelOf(score),
            confidence |-> RAbs(score),
            breakdown |-> [positive |-> RDiv(weightedPositive, totalWeight),
                           neutral  |-> RDiv(weightedNeutral, totalWeight),
                           negative |-> RDiv(weightedNegative, totalWeight)]]

\* analyzeStockSentiment: a text also carries tokens, the words and phrases
\* it is made of, in the order and as often as they occur.
bullishKeywords ==
  <<"moon", "rocket", "buy", "calls", "bullish", "breakout", "squeeze",
    "tendies", "diamond hands", "hodl", "buying the dip", "undervalued",
    "breakout", "rally", "pump", "gains", "lambo">>

bearishKeywords ==
  <<"puts", "bearish", "crash", "dump", "overvalued", "bubble",
    "paper hands", "bag holder", "rekt", "falling knife", "bear trap">>

\* String.toLowerCase on one token
lowerCase(token) ==
  CASE token = "MOON" -> "moon"
    [] token = "Dump" -> "dump"
    [] OTHER -> token

toLowerCase(tokens) == [i \in 1..Len(tokens) |-> lowerCase(tokens[i])]

\* keyword is a substring of token ("buy" is one of "buying the dip")
isSubstring(keyword, token) ==
  \/ keyword = token
  \/ (keyword = "buy" /\ token = "buying the dip")

\* lowerText.includes(keyword)
includes(lowerText, keyword) ==
  \E i \in 1..Len(lowerText) : isSubstring(keyword, lowerText[i])

\* for (const keyword of keywords) if (lowerText.includes(keyword)) adjustment += step
keywordLoop(keywords, lowerText, step) ==
  RSum([i \in 1..Len(keywords) |->
          IF includes(lowerText, keywords[i]) THEN step ELSE Num(0)])

analyzeStockSentimentBaseLabel(text) ==
  LET baseSentiment == analyzeSentiment(text)
      lowerText == toLowerCase(text.tokens)
      adjustment == RAdd(keywordLoop(bullishKeywords, lowerText, Rat(1, 10)),
                         keywordLoop(bearishKeywords, lowerText, Rat(-1, 10)))
      adjustedScore == RMax(Num(-1), RMin(Num(1), RAdd(baseSentiment.score, adjustment)))
  IN  [score |-> adjustedScore,
       label |-> baseSentiment.label,
       confidence |-> RAbs(adjustedScore),
       breakdown |-> baseSentiment.breakdown]

analyzeStockSentiment(text) ==
  LET baseSentiment == analyzeSentiment(text)
      lowerText == toLowerCase(text.tokens)
      adjustment == RAdd(keywordLoop(bullishKeywords, lowerText, Rat(1, 10)),
                         keywordLoop(bearishKeywords, lowerText, Rat(-1, 10)))
      adjustedScore == RMax(Num(-1), RMin(Num(1), RAdd(baseSentiment.score, adjustment)))
  IN  [score |-> adjustedScore,
       label |-> labelOf(adjustedScore),
       confidence |-> RAbs(adjustedScore),
       breakdown |-> baseSentiment.breakdown]

(* ------------------------------------------------------------------ *)
(* Collaborators of the aggregator                                     *)
(* A collaborator response is [kind, data], kind "throw", "null" or    *)
(* "data"; data is the list it carries (empty unless kind = "data").   *)
(* ------------------------------------------------------------------ *)
\* obj[key] in JavaScript: undefined, NaN in arithmetic, for a missing key
Get(obj, key) == IF key \in DOMAIN obj THEN obj[key] ELSE NaN

MinInt(a, b) == IF a < b THEN a ELSE b

\* FinnhubService.getAverageSentiment(ticker, days) on the response of
\* fetchSocialSentiment; null is <<>>. positiveMentions / negativeMentions
\* are sums no caller reads and are left out.
getAverageSentiment(response, days) ==
  IF response.kind # "data" \/ Len(response.data) = 0 THEN <<>>
  ELSE LET recentData == SubSeq(response.data, 1, MinInt(days, Len(response.data)))
           n == Len(recentData)
           totalMentions == RSum([i \in 1..n |-> Num(recentData[i].mention)])
           weightedScoreSum ==
             RSum([i \in 1..n |-> RMul(recentData[i].score, Num(recentData[i].mention))])
           totalWeight == RSum([i \in 1..n |-> Num(recentData[i].mention)])
           averageScore ==
             IF RGt(totalWeight, Num(0)) THEN RDiv(weightedScoreSum, totalWeight) ELSE Num(0)
           confidence == RMin(RDiv(totalMentions, Num(1000)), Num(1))
       IN  <<[averageScore |-> averageScore, totalMentions |-> totalMentions.n,
              confidence |-> confidence]>>

getAggregatedSentimentKeepEmpty(response) ==
  IF response.kind # "data" \/ Len(response.data) = 0 THEN <<>>
  ELSE LET relevantArticles ==
             SelectSeq(response.data, LAMBDA a : a.match /\ RGt(a.relevance, Rat(3, 10)))
           n == Len(relevantArticles)
           weightedSentimentSum ==
             RSum([i \in 1..n |-> RMul(relevantArticles[i].sentiment,
                                       relevantArticles[i].relevance)])
           totalWeight == RSum([i \in 1..n |-> relevantArticles[i].relevance])
           averageRelevance == RDiv(totalWeight, Num(n))
       IN  <<[averageSentiment |->
                IF RGt(totalWeight, Num(0)) THEN RDiv(weightedSentimentSum, totalWeight)
                ELSE Num(0),
              articleCount |-> Len(response.data),
              relevantArticleCount |-> n,
              averageRelevance |-> averageRelevance,
              confidence |-> RAdd(RMul(RMin(RDiv(Num(n), Num(20)), Num(1)), Rat(5, 10)),
                                  RMul(averageRelevance, Rat(5, 10)))]>>

\* AlphaVantageService.getAggregatedSentiment(ticker, limit) on the response
\* of fetchNewsSentiment. An article is [match, relevance, sentiment]: whether
\* its ticker_sentiment lists the ticker, and the two parsed scores if so.
getAggregatedSentiment(response) ==
  IF response.kind # "data" \/ Len(response.data) = 0 THEN <<>>
  ELSE LET relevantArticles ==
             SelectSeq(response.data, LAMBDA a : a.match /\ RGt(a.relevance, Rat(3, 10)))
           n == Len(relevantArticles)
           weightedSentimentSum ==
             RSum([i \in 1..n |-> RMul(relevantArticles[i].sentiment,
                                       relevantArticles[i].relevance)])
           totalWeight == RSum([i \in 1..n |-> relevantArticles[i].relevance])
           averageSentiment ==
             IF RGt(totalWeight, Num(0)) THEN RDiv(weightedSentimentSum, totalWeight)
             ELSE Num(0)
           averageRelevance ==
             RDiv(RSum([i \in 1..n |-> relevantArticles[i].relevance]), Num(n))
           articleCountFactor == RMin(RDiv(Num(n), Num(20)), Num(1))
           confidence ==
             RAdd(RMul(articleCountFactor, Rat(5, 10)), RMul(averageRelevance, Rat(5, 10)))
       IN  IF n = 0 THEN <<>>
           ELSE <<[averageSentiment |-> averageSentiment,
                   articleCount |-> Len(response.data),
                   relevantArticleCount |-> n,
                   averageRelevance |-> averageRelevance,
                   confidence |-> confidence]>>

(* ------------------------------------------------------------------ *)
(* SentimentAggregatorService                                          *)
(* ------------------------------------------------------------------ *)
SOURCE_WEIGHTS ==
  [finnhub |-> Rat(35, 100), alphaVantage |-> Rat(30, 100), reddit |-> Rat(35, 100)]

Sources == <<"finnhub", "alphaVantage", "reddit">>

\* A settled promise: fulfilled with null (<<>>) or a data point (<<p>>), or
\* rejected.
Fulfilled(v) == [state |-> "fulfilled", value |-> v]
Rejected     == [state |-> "rejected", value |-> <<>>]
Pending      == [state |-> "pending", value |-> <<>>]

fetchFinnhubSentimentNoCatch(response) ==
  IF response.kind = "throw" THEN Rejected
  ELSE LET data == getAverageSentiment(response, 7)
       IN  IF data = <<>> THEN Fulfilled(<<>>)
           ELSE Fulfilled(<<[source |-> "finnhub",
                             score |-> data[1].averageScore,
                             confidence |-> data[1].confidence,
                             mentionCount |-> data[1].totalMentions]>>)

fetchFinnhubSentiment(response) ==
  IF response.kind = "throw" THEN Fulfilled(<<>>)
  ELSE LET data == getAverageSentiment(response, 7)
       IN  IF data = <<>> THEN Fulfilled(<<>>)
           ELSE Fulfilled(<<[source |-> "finnhub",
                             score |-> data[1].averageScore,
                             confidence |-> data[1].confidence,
                             mentionCount |-> data[1].totalMentions]>>)

fetchAlphaVantageSentiment(response) ==
  IF response.kind = "throw" THEN Fulfilled(<<>>)
  ELSE LET data == getAggregatedSentiment(response)
       IN  IF data = <<>> THEN Fulfilled(<<>>)
           ELSE Fulfilled(<<[source |-> "alpha_vantage",
                             score |-> data[1].averageSentiment,
                             confidence |-> data[1].confidence,
                             mentionCount |-> data[1].relevantArticleCount]>>)

postText(post) == post.text

calculateRedditConfidence(posts, sentiment) ==
  LET n == Len(posts)
      volumeFactor == RMin(RDiv(Num(n), Num(50)), Num(1))
      individualScores ==
        [i \in 1..n |-> Get(analyzeSentiment(postText(posts[i])), "compound")]
      avgScore == Get(sentiment, "compound")
      variance ==
        RDiv(RSum([i \in 1..n |->
                     RMul(RSub(individualScores[i], avgScore),
                          RSub(individualScores[i], avgScore))]),
             Num(n))
      consistency == RSub(Num(1), RMin(variance, Num(1)))
  IN  RAdd(RMul(volumeFactor, Rat(4, 10)), RMul(consistency, Rat(6, 10)))

\* response: what redditService.fetchStockMentions(ticker, 50) did. A post is
\* [text, upvotes, weight].
fetchRedditSentiment(response) ==
  IF response.kind = "throw" THEN Fulfilled(<<>>)
  ELSE IF response.kind = "null" \/ Len(response.data) = 0 THEN Fulfilled(<<>>)
  ELSE LET posts == response.data
           weightedTexts ==
             [i \in 1..Len(posts) |->
                [text |-> postText(posts[i]),
                 weight |-> RMul(Num(posts[i].upvotes + 1),
                                 IF IsNum(posts[i].weight) /\ posts[i].weight.n # 0
                                 THEN posts[i].weight ELSE Num(1))]]
           sentiment == analyzeWeighted(weightedTexts)
           score == Get(sentiment, "compound")
           confidence == calculateRedditConfidence(posts, sentiment)
       IN  Fulfilled(<<[source |-> "reddit",
                        score |-> score,
                        confidence |-> confidence,
                        mentionCount |-> Len(posts)]>>)

RECURSIVE weightedLoop(_, _, _, _, _)
weightedLoop(dataPoints, i, weightedScoreSum, totalWeight, confidenceSum) ==
  IF i > Len(dataPoints)
  THEN LET score ==
             IF RGt(totalWeight, Num(0)) THEN RDiv(weightedScoreSum, totalWeight) ELSE Num(0)
           avgConfidence == RDiv(confidenceSum, Num(Len(dataPoints)))
           diversityFactor == RMin(RDiv(Num(Len(dataPoints)), Num(3)), Num(1))
           confidence == RAdd(RMul(avgConfidence, Rat(7, 10)), RMul(diversityFactor, Rat(3, 10)))
       IN  [score |-> score, confidence |-> confidence]
  ELSE LET dataPoint == dataPoints[i]
           sourceWeight == Get(SOURCE_WEIGHTS, dataPoint.source)
           combinedWeight == RMul(sourceWeight, dataPoint.confidence)
       IN  weightedLoop(dataPoints, i + 1,
                        RAdd(weightedScoreSum, RMul(dataPoint.score, combinedWeight)),
                        RAdd(totalWeight, combinedWeight),
                        RAdd(confidenceSum, dataPoint.confidence))

calculateWeightedAverageNoEmptyGuard(dataPoints) ==
  weightedLoop(dataPoints, 1, Num(0), Num(0), Num(0))

calculateWeightedAverageMeanConfidence(dataPoints) ==
  IF Len(dataPoints) = 0 THEN [score |-> Num(0), confidence |-> Num(0)]
  ELSE LET r == weightedLoop(dataPoints, 1, Num(0), Num(0), Num(0))
           confidenceSum == RSum([i \in 1..Len(dataPoints) |-> dataPoints[i].confidence])
       IN  [score |-> r.score, confidence |-> RDiv(confidenceSum, Num(Len(dataPoints)))]

calculateWeightedAverage(dataPoints) ==
  IF Len(dataPoints) = 0 THEN [score |-> Num(0), confidence |-> Num(0)]
  ELSE weightedLoop(dataPoints, 1, Num(0), Num(0), Num(0))

labelSentimentStrictNeutral(score) ==
  IF RGt(score, Rat(5, 10)) THEN "Very Bullish"
  ELSE IF RGt(score, Rat(15, 100)) THEN "Bullish"
  ELSE IF RGt(score, Rat(-15, 100)) THEN "Neutral"
  ELSE IF RGe(score, Rat(-5, 10)) THEN "Bearish"
  ELSE "Very Bearish"

labelSentiment(score) ==
  IF RGt(score, Rat(5, 10)) THEN "Very Bullish"
  ELSE IF RGt(score, Rat(15, 100)) THEN "Bullish"
  ELSE IF RGe(score, Rat(-15, 100)) THEN "Neutral"
  ELSE IF RGe(score, Rat(-5, 10)) THEN "Bearish"
  ELSE "Very Bearish"

\* lines 87-141 of aggregateSentiment: what it builds from the three values
\* Promise.all delivered (each null <<>> or a data point <<p>>)
aggregateFrom(finnhubData, alphaVantageData, redditData) ==
  LET dataPoints == finnhubData \o alphaVantageData \o redditData
      present == (IF Len(finnhubData) = 1 THEN {"finnhub"} ELSE {})
                   \cup (IF Len(alphaVantageData) = 1 THEN {"alphaVantage"} ELSE {})
                   \cup (IF Len(redditData) = 1 THEN {"reddit"} ELSE {})
      sources ==
        [k \in present |->
           CASE k = "finnhub" ->
                  [score |-> finnhubData[1].score,
                   mentions |-> finnhubData[1].mentionCount,
                   confidence |-> finnhubData[1].confidence,
                   weight |-> SOURCE_WEIGHTS.finnhub]
             [] k = "alphaVantage" ->
                  [score |-> alphaVantageData[1].score,
                   articles |-> alphaVantageData[1].mentionCount,
                   confidence |-> alphaVantageData[1].confidence,
                   weight |-> SOURCE_WEIGHTS.alphaVantage]
             [] k = "reddit" ->
                  [score |-> redditData[1].score,
                   posts |-> redditData[1].mentionCount,
                   confidence |-> redditData[1].confidence,
                   weight |-> SOURCE_WEIGHTS.reddit]]
      sourcesUsed ==
        (IF Len(finnhubData) = 1 THEN <<"Finnhub (Reddit + Twitter)">> ELSE <<>>)
          \o (IF Len(alphaVantageData) = 1 THEN <<"Alpha Vantage (News)">> ELSE <<>>)
          \o (IF Len(redditData) = 1 THEN <<"Reddit (Weighted)">> ELSE <<>>)
      aggregated == calculateWeightedAverage(dataPoints)
      totalMentions ==
        (IF "finnhub" \in present THEN sources["finnhub"].mentions ELSE 0)
          + (IF "alphaVantage" \in present THEN sources["alphaVantage"].articles ELSE 0)
          + (IF "reddit" \in present THEN sources["reddit"].posts ELSE 0)
  IN  [overallScore  |-> aggregated.score,
       overallLabel  |-> labelSentiment(aggregated.score),
       confidence    |-> aggregated.confidence,
       sources       |-> sources,
       totalMentions |-> totalMentions,
       sourcesUsed   |-> sourcesUsed]

\* Promise.all: the fulfilment values by position in the array passed in
PromiseAllByCompletion(ps, completed) ==
  [i \in 1..3 |-> ps[completed[i]].value]

PromiseAll(ps, completed) ==
  [i \in 1..3 |-> ps[Sources[i]].value]

(* ------------------------------------------------------------------ *)
(* Collaborator responses                                              *)
(* ------------------------------------------------------------------ *)
MaxDays     == 2
MaxArticles == 2
MaxPosts    == 2

SeqsUpTo(S, n) == UNION {[1..k -> S] : k \in 0..n}

FinnhubRecords ==
  {[mention |-> m, score |-> sc] : m \in {0, 500}, sc \in {Num(-1), Rat(1, 2)}}

Articles ==
  {[match |-> FALSE, relevance |-> NaN, sentiment |-> NaN],
   [match |-> TRUE, relevance |-> Rat(3, 10), sentiment |-> Num(1)],
   [match |-> TRUE, relevance |-> Rat(1, 2), sentiment |-> Rat(1, 2)],
   [match |-> TRUE, relevance |-> Num(1), sentiment |-> Num(-1)]}

VaderScores ==
  {[compound |-> Rat(1, 2), pos |-> Rat(1, 2), neu |-> Rat(1, 2), neg |-> Num(0)],
   [compound |-> Rat(-1, 2), pos |-> Num(0), neu |-> Rat(1, 2), neg |-> Rat(1, 2)]}

Texts == {[blank |-> FALSE, vader |-> v] : v \in VaderScores}

Posts ==
  {[text |-> t, upvotes |-> u, weight |-> w] :
     t \in Texts, u \in {0, 9}, w \in {Num(1), Rat(5, 2)}}

Failures == {[kind |-> "throw", data |-> <<>>], [kind |-> "null", data |-> <<>>]}

FinnhubResponses ==
  Failures \cup {[kind |-> "data", data |-> d] : d \in SeqsUpTo(FinnhubRecords, MaxDays) \ {<<>>}}

AlphaVantageResponses ==
  Failures \cup {[kind |-> "data", data |-> d] : d \in SeqsUpTo(Articles, MaxArticles)}

RedditResponses ==
  Failures \cup {[kind |-> "data", data |-> d] : d \in SeqsUpTo(Posts, MaxPosts)}

\* what a collaborator had to offer, told from its response alone: it threw,
\* it is unconfigured (fetch returned null), its feed is empty, nothing of the
\* feed is usable, or there is usable data
feedOf(response, usableItems) ==
  CASE response.kind = "throw" -> "threw"
    [] response.kind = "null" -> "unconfigured"
    [] response.kind = "data" /\ Len(response.data) = 0 -> "empty"
    [] response.kind = "data" /\ Len(response.data) > 0 /\ Len(usableItems) = 0 -> "filtered"
    [] OTHER -> "usable"

\* the articles of a news feed that name the ticker with relevance above 0.3
UsableArticles(feed) ==
  SelectSeq(feed, LAMBDA a : a.match /\ RGt(a.relevance, Rat(3, 10)))

\* what the wrapper saw of its collaborator: an exception, nothing usable
\* (null, or an empty list), or data
outcomeOf(response, value) ==
  IF response.kind = "throw" THEN "threw"
  ELSE IF value = <<>> THEN "nothing" ELSE "data"

(* ------------------------------------------------------------------ *)
(* Specification of aggregateSentiment: the three fetches run          *)
(* concurrently and settle in any order, then the result is built.     *)
(* ------------------------------------------------------------------ *)
InitAgg ==
  /\ PumpIdle
  /\ AggIdle
  /\ ScoreIdle
  /\ TrackIdle

StartAggregate ==
  /\ apc = "idle"
  /\ apc' = "fetching"
  /\ promises' = [s \in {"finnhub", "alphaVantage", "reddit"} |-> Pending]
  /\ returned' = [s \in {"finnhub", "alphaVantage", "reddit"} |-> "pending"]
  /\ feeds' = [s \in {"finnhub", "alphaVantage", "reddit"} |-> "pending"]
  /\ UNCHANGED <<order, aresult, pumpVars, scoreVars, trackVars>>

FinnhubSettles ==
  \E response \in FinnhubResponses :
    LET promise == fetchFinnhubSentiment(response)
    IN  /\ apc = "fetching"
        /\ promises["finnhub"].state = "pending"
        /\ promises' = [promises EXCEPT !["finnhub"] = promise]
        /\ returned' = [returned EXCEPT !["finnhub"] = outcomeOf(response, promise.value)]
        /\ order' = Append(order, "finnhub")
        /\ feeds' = [feeds EXCEPT !["finnhub"] = feedOf(response, response.data)]
        /\ UNCHANGED <<apc, aresult, pumpVars, scoreVars, trackVars>>

AlphaVantageSettles ==
  \E response \in AlphaVantageResponses :
    LET promise == fetchAlphaVantageSentiment(response)
    IN  /\ apc = "fetching"
        /\ promises["alphaVantage"].state = "pending"
        /\ promises' = [promises EXCEPT !["alphaVantage"] = promise]
        /\ returned' = [returned EXCEPT !["alphaVantage"] = outcomeOf(response, promise.value)]
        /\ order' = Append(order, "alphaVantage")
        /\ feeds' = [feeds EXCEPT !["alphaVantage"] = feedOf(response, UsableArticles(response.data))]
        /\ UNCHANGED <<apc, aresult, pumpVars, scoreVars, trackVars>>

RedditSettles ==
  \E response \in RedditResponses :
    LET promise == fetchRedditSentiment(response)
    IN  /\ apc = "fetching"
        /\ promises["reddit"].state = "pending"
        /\ promises' = [promises EXCEPT !["reddit"] = promise]
        /\ returned' = [returned EXCEPT !["reddit"] = outcomeOf(response, promise.value)]
        /\ order' = Append(order, "reddit")
        /\ feeds' = [feeds EXCEPT !["reddit"] = feedOf(response, response.data)]
        /\ UNCHANGED <<apc, aresult, pumpVars, scoreVars, trackVars>>

\* await Promise.all([...]) and the rest of aggregateSentiment: Promise.all
\* rejects as soon as one promise has rejected, and otherwise fulfils once all
\* three have; the async function then resolves with the result it builds.
AwaitAll ==
  /\ apc = "fetching"
  /\ LET anyRejected == \E s \in DOMAIN promises : promises[s].state = "rejected"
         allFulfilled == \A s \in DOMAIN promises : promises[s].state = "fulfilled"
         values == PromiseAll(promises, order)
     IN  /\ IF anyRejected THEN TRUE ELSE allFulfilled
         /\ apc' = IF anyRejected THEN "rejected" ELSE "resolved"
         /\ aresult' = IF anyRejected THEN NoAggregate
                       ELSE aggregateFrom(values[1], values[2], values[3])
  /\ UNCHANGED <<promises, returned, order, feeds, pumpVars, scoreVars, trackVars>>

NextAgg ==
  \/ StartAggregate
  \/ FinnhubSettles
  \/ AlphaVantageSettles
  \/ RedditSettles
  \/ AwaitAll

SpecAgg == InitAgg /\ [][NextAgg]_vars

(* ------------------------------------------------------------------ *)
(* Specification of the scoring functions: one call of labelSentiment  *)
(* or of a SentimentService scorer on an argument of a bounded set.    *)
(* ------------------------------------------------------------------ *)
MaxTokens == 2
MaxItems  == 2

LabelScores == {Rat(k, 20) : k \in -20..20}

Tokens == {"MOON", "moon", "breakout", "buying the dip", "Dump", "hello"}

\* the analyzer's pos / neu / neg proportions sum to 1
StockVaderScores ==
  {[compound |-> Num(-1), pos |-> Num(0), neu |-> Rat(1, 4), neg |-> Rat(3, 4)],
   [compound |-> Rat(-1, 20), pos |-> Rat(1, 4), neu |-> Rat(1, 2), neg |-> Rat(1, 4)],
   [compound |-> Num(0), pos |-> Num(0), neu |-> Num(1), neg |-> Num(0)],
   [compound |-> Rat(1, 20), pos |-> Rat(1, 5), neu |-> Rat(7, 10), neg |-> Rat(1, 10)],
   [compound |-> Rat(19, 20), pos |-> Rat(4, 5), neu |-> Rat(1, 5), neg |-> Num(0)]}

\* a blank text (empty or whitespace only) has no tokens; its vader field
\* is what the analyzer would say if it were asked
StockTexts ==
  {[blank |-> TRUE, vader |-> v, tokens |-> <<>>] : v \in StockVaderScores}
    \cup {[blank |-> FALSE, vader |-> v, tokens |-> t] :
            v \in StockVaderScores, t \in SeqsUpTo(Tokens, MaxTokens)}

WeightedItems ==
  {[text |-> t, weight |-> w] :
     t \in {x \in StockTexts : x.tokens = <<>>}, w \in {Num(-2), Rat(1, 2), Num(3)}}

\* models/schema.ts.  Market caps are counted in millions of dollars, so
\* that 200 billion stays a small integer: 1 is $1,000,000.
million == Num(1)
billion == Num(1000)

\* !marketCap: undefined, 0 and NaN are falsy.
truthy(marketCap) == marketCap # <<>> /\ IsNum(marketCap[1]) /\ marketCap[1].n # 0

classifyByMarketCap(marketCap) ==
  IF ~truthy(marketCap) THEN "small"
  ELSE IF RLt(marketCap[1], RMul(Num(50), million)) THEN "nano"
  ELSE IF RLt(marketCap[1], RMul(Num(300), million)) THEN "micro"
  ELSE IF RLt(marketCap[1], RMul(Num(2), billion)) THEN "small"
  ELSE IF RLt(marketCap[1], RMul(Num(10), billion)) THEN "mid"
  ELSE IF RLt(marketCap[1], RMul(Num(200), billion)) THEN "large"
  ELSE "mega"

\* isPennyStock whose first test looks at the price alone.
isPennyStockByPrice(price, marketCap) ==
  IF RLt(price, Num(5)) /\ truthy(marketCap)
  THEN TRUE
  ELSE LET classification == classifyByMarketCap(marketCap)
       IN  classification = "nano" \/ classification = "micro"

isPennyStock(price, marketCap) ==
  IF RLt(price, Num(5)) /\ truthy(marketCap) /\ RLt(marketCap[1], Num(300))
  THEN TRUE
  ELSE LET classification == classifyByMarketCap(marketCap)
       IN  classification = "nano" \/ classification = "micro"

SharePrices == {NaN, Num(-1), Num(0), Num(1), Rat(499, 100), Num(5), Num(6), Num(1000)}
MarketCaps ==
  Opt({NaN, Num(-1), Num(0), Rat(1, 2), Num(49), Num(50), Rat(2999, 10), Num(300),
       Num(301), Num(1999), Num(2000), Num(10000), Num(199999), Num(200000)})

InitScoring ==
  /\ spc = "ready"
  /\ sinput = NoCall
  /\ sresult = NoScore
  /\ PumpIdle
  /\ AggIdle
  /\ TrackIdle

LabelSentiment ==
  \E score \in LabelScores :
    /\ spc = "ready"
    /\ spc' = "labelSentiment"
    /\ sinput' = score
    /\ sresult' = labelSentiment(score)
    /\ UNCHANGED <<pumpVars, aggVars, trackVars>>

AnalyzeSentiment ==
  \E text \in StockTexts :
    /\ spc = "ready"
    /\ spc' = "analyzeSentiment"
    /\ sinput' = text
    /\ sresult' = analyzeSentiment(text)
    /\ UNCHANGED <<pumpVars, aggVars, trackVars>>

AnalyzeWeighted ==
  \E items \in SeqsUpTo(WeightedItems, MaxItems) :
    /\ spc = "ready"
    /\ spc' = "analyzeWeighted"
    /\ sinput' = items
    /\ sresult' = analyzeWeighted(items)
    /\ UNCHANGED <<pumpVars, aggVars, trackVars>>

AnalyzeStockSentiment ==
  \E text \in StockTexts :
    /\ spc = "ready"
    /\ spc' = "analyzeStockSentiment"
    /\ sinput' = text
    /\ sresult' = analyzeStockSentiment(text)
    /\ UNCHANGED <<pumpVars, aggVars, trackVars>>

IsPennyStock ==
  \E price \in SharePrices, marketCap \in MarketCaps :
    /\ spc = "ready"
    /\ spc' = "isPennyStock"
    /\ sinput' = [price |-> price, marketCap |-> marketCap]
    /\ sresult' = [returned |-> isPennyStock(price, marketCap)]
    /\ UNCHANGED <<pumpVars, aggVars, trackVars>>

NextScoring ==
  \/ LabelSentiment
  \/ AnalyzeSentiment
  \/ AnalyzeWeighted
  \/ AnalyzeStockSentiment
  \/ IsPennyStock

SpecScoring == InitScoring /\ [][NextScoring]_vars

(* ------------------------------------------------------------------ *)
(* UserTrackingService (user-tracking service, in-memory)              *)
(* ------------------------------------------------------------------ *)
\* Numbers of this service can be infinite: a pick recorded with
\* entryPrice 0 has ROI (price - 0) / 0.  [n |-> 1, d |-> 0] is +Infinity,
\* [n |-> -1, d |-> 0] is -Infinity, [n |-> 0, d |-> 0] is NaN.
PosInf == [n |-> 1, d |-> 0]
NegInf == [n |-> -1, d |-> 0]

IsNaN(a) == a.d = 0 /\ a.n = 0
IsInf(a) == a.d = 0 /\ a.n # 0
Sign(a)  == IF a.n > 0 THEN 1 ELSE IF a.n < 0 THEN -1 ELSE 0
Inf(s)   == IF s > 0 THEN PosInf ELSE NegInf

XNeg(a) == [n |-> -a.n, d |-> a.d]

XAdd(a, b) ==
  IF IsNaN(a) \/ IsNaN(b) THEN NaN
  ELSE IF IsInf(a) /\ IsInf(b) THEN (IF a = b THEN a ELSE NaN)
  ELSE IF IsInf(a) THEN a
  ELSE IF IsInf(b) THEN b
  ELSE Rat(a.n * b.d + b.n * a.d, a.d * b.d)

XSub(a, b) == XAdd(a, XNeg(b))

XMul(a, b) ==
  IF IsNaN(a) \/ IsNaN(b) THEN NaN
  ELSE IF IsInf(a) \/ IsInf(b)
       THEN (IF Sign(a) * Sign(b) = 0 THEN NaN ELSE Inf(Sign(a) * Sign(b)))
  ELSE Rat(a.n * b.n, a.d * b.d)

\* The zero divisors of this service are +0 (a price of 0).
XDiv(a, b) ==
  IF IsNaN(a) \/ IsNaN(b) THEN NaN
  ELSE IF IsInf(a) /\ IsInf(b) THEN NaN
  ELSE IF IsInf(a) THEN Inf(IF Sign(b) < 0 THEN -Sign(a) ELSE Sign(a))
  ELSE IF IsInf(b) THEN Num(0)
  ELSE IF b.n = 0 THEN (IF a.n = 0 THEN NaN ELSE Inf(Sign(a)))
  ELSE Rat(a.n * b.d, a.d * b.n)

\* Comparisons with NaN are false.
XLt(a, b) == ~IsNaN(a) /\ ~IsNaN(b) /\ a # b /\ Sign(XSub(a, b)) < 0
XGt(a, b) == XLt(b, a)
XLe(a, b) == ~IsNaN(a) /\ ~IsNaN(b) /\ ~XLt(b, a)
XGe(a, b) == XLe(b, a)

XMin(a, b) == IF IsNaN(a) \/ IsNaN(b) THEN NaN ELSE IF XLt(b, a) THEN b ELSE a
XMax(a, b) == IF IsNaN(a) \/ IsNaN(b) THEN NaN ELSE IF XGt(b, a) THEN b ELSE a

\* `${platform}:${username}`.  The platforms of the declared type contain no
\* ':', so the string determines the pair; the key is kept as the pair.
keyOf(platform, username) == <<platform, username>>

\* The record addTrackedUser creates (displayName is carried nowhere else).
newUser(id, platform, username) ==
  [id |-> id, platform |-> platform, username |-> username,
   totalPicks |-> 0, successfulPicks |-> 0, failedPicks |-> 0,
   accuracyRate |-> Num(0), averageROI |-> Num(0),
   reputationScore |-> Num(50), trustLevel |-> "unverified", isActive |-> TRUE]

\* The record recordPick creates (ticker, pickedAt and postUrl are carried
\* nowhere else).
newPick(id, userId, sentiment, entryPrice) ==
  [id |-> id, userId |-> userId, sentiment |-> sentiment,
   entryPrice |-> entryPrice, currentPrice |-> entryPrice,
   peakPrice |-> entryPrice, lowestPrice |-> entryPrice,
   currentROI |-> Num(0), peakROI |-> Num(0), worstROI |-> Num(0),
   outcome |-> "pending"]

countOutcome(picks, outcome) ==
  Cardinality({i \in DOMAIN picks : picks[i].outcome = outcome})

countSentiment(picks, sentiment) ==
  Cardinality({i \in DOMAIN picks : picks[i].sentiment = sentiment})

RECURSIVE sumROI(_, _, _)
sumROI(picks, i, sum) ==
  IF i > Len(picks) THEN sum
  ELSE sumROI(picks, i + 1,
              IF picks[i].sentiment = "bullish"
              THEN XAdd(sum, picks[i].currentROI) ELSE sum)

trustLevelOf(reputationScore, totalPicks) ==
  IF XGe(reputationScore, Num(80)) /\ totalPicks >= 20 THEN "expert"
  ELSE IF XGe(reputationScore, Num(65)) /\ totalPicks >= 10 THEN "trusted"
  ELSE IF XGe(reputationScore, Num(50)) /\ totalPicks >= 5 THEN "emerging"
  ELSE "unverified"

updateUserMetrics(user, picks) ==
  IF Len(picks) = 0 THEN user
  ELSE
    LET successfulPicks == countOutcome(picks, "successful")
        failedPicks     == countOutcome(picks, "failed")
        resolvedPicks   == successfulPicks + failedPicks
        accuracyRate    == IF resolvedPicks > 0
                           THEN XMul(XDiv(Num(successfulPicks), Num(resolvedPicks)), Num(100))
                           ELSE Num(0)
        bullishPicks    == countSentiment(picks, "bullish")
        averageROI      == IF bullishPicks > 0
                           THEN XDiv(sumROI(picks, 1, Num(0)), Num(bullishPicks))
                           ELSE user.averageROI
        accuracyScore   == XMul(accuracyRate, Rat(1, 2))
        roiScore        == XMul(XMin(XMax(XMul(averageROI, Num(2)), Num(0)), Num(50)),
                                Rat(3, 10))
        volumeScore     == XMul(XMul(XMin(XDiv(Num(user.totalPicks), Num(20)), Num(1)),
                                     Num(20)), Rat(1, 5))
        reputationScore == XAdd(XAdd(accuracyScore, roiScore), volumeScore)
    IN  [user EXCEPT !.successfulPicks = successfulPicks,
                     !.failedPicks = failedPicks,
                     !.accuracyRate = accuracyRate,
                     !.averageROI = averageROI,
                     !.reputationScore = reputationScore,
                     !.trustLevel = trustLevelOf(reputationScore, user.totalPicks)]

roiOf(price, entryPrice) == XMul(XDiv(XSub(price, entryPrice), entryPrice), Num(100))

\* updatePickPrice judging a bullish pick by its current ROI and a bearish
\* pick by its current ROI, not by the best price seen.
updatePickPriceCurrentOnly(pick, currentPrice) ==
  LET peakPrice   == IF XGt(currentPrice, pick.peakPrice) THEN currentPrice ELSE pick.peakPrice
      lowestPrice == IF XLt(currentPrice, pick.lowestPrice) THEN currentPrice ELSE pick.lowestPrice
      currentROI  == roiOf(currentPrice, pick.entryPrice)
      peakROI     == roiOf(peakPrice, pick.entryPrice)
      worstROI    == roiOf(lowestPrice, pick.entryPrice)
      outcome     ==
        IF pick.sentiment = "bullish"
        THEN (IF XGe(currentROI, Num(5)) THEN "successful"
              ELSE IF XLe(currentROI, Num(-5)) THEN "failed"
              ELSE pick.outcome)
        ELSE IF pick.sentiment = "bearish"
        THEN (IF XLe(currentROI, Num(-5)) THEN "successful"
              ELSE IF XGe(currentROI, Num(5)) THEN "failed"
              ELSE pick.outcome)
        ELSE pick.outcome
  IN  [pick EXCEPT !.currentPrice = currentPrice, !.peakPrice = peakPrice,
                   !.lowestPrice = lowestPrice, !.currentROI = currentROI,
                   !.peakROI = peakROI, !.worstROI = worstROI, !.outcome = outcome]

\* What updatePickPrice does to the pick it finds.
updatePickPrice(pick, currentPrice) ==
  LET peakPrice   == IF XGt(currentPrice, pick.peakPrice) THEN currentPrice ELSE pick.peakPrice
      lowestPrice == IF XLt(currentPrice, pick.lowestPrice) THEN currentPrice ELSE pick.lowestPrice
      currentROI  == roiOf(currentPrice, pick.entryPrice)
      peakROI     == roiOf(peakPrice, pick.entryPrice)
      worstROI    == roiOf(lowestPrice, pick.entryPrice)
      outcome     ==
        IF pick.sentiment = "bullish"
        THEN (IF XGe(peakROI, Num(5)) THEN "successful"
              ELSE IF XLe(currentROI, Num(-5)) THEN "failed"
              ELSE pick.outcome)
        ELSE IF pick.sentiment = "bearish"
        THEN (IF XLe(worstROI, Num(-5)) THEN "successful"
              ELSE IF XGe(currentROI, Num(5)) THEN "failed"
              ELSE pick.outcome)
        ELSE pick.outcome
  IN  [pick EXCEPT !.currentPrice = currentPrice, !.peakPrice = peakPrice,
                   !.lowestPrice = lowestPrice, !.currentROI = currentROI,
                   !.peakROI = peakROI, !.worstROI = worstROI, !.outcome = outcome]

\* Array.from(this.trackedUsers.values()): insertion order, which is id order.
userValues ==
  [i \in 1..(nextUserId - 1) |->
     trackedUsers[CHOOSE k \in DOMAIN trackedUsers : trackedUsers[k].id = i]]

\* getUserById: the key of the user with this id.
keyOfId(id) == CHOOSE k \in DOMAIN trackedUsers : trackedUsers[k].id = id

RECURSIVE filterActive(_, _)
filterActive(users, i) ==
  IF i > Len(users) THEN <<>>
  ELSE IF users[i].isActive THEN <<users[i]>> \o filterActive(users, i + 1)
  ELSE filterActive(users, i + 1)

\* Stable sort by (a, b) => b.reputationScore - a.reputationScore; a NaN
\* difference counts as 0.
RECURSIVE insertUser(_, _)
insertUser(sorted, u) ==
  IF sorted = <<>> THEN <<u>>
  ELSE LET last == sorted[Len(sorted)]
       IN  IF XGt(XSub(u.reputationScore, last.reputationScore), Num(0))
           THEN Append(insertUser(SubSeq(sorted, 1, Len(sorted) - 1), u), last)
           ELSE Append(sorted, u)

RECURSIVE sortByReputation(_)
sortByReputation(users) ==
  IF users = <<>> THEN <<>>
  ELSE insertUser(sortByReputation(SubSeq(users, 1, Len(users) - 1)), users[Len(users)])

getAllTrackedUsers == sortByReputation(filterActive(userValues, 1))

\* At most MaxPicks picks are recorded.
MaxPicks == 2

\* The owner (user id) and position of the pick with this id, if any.
pickPlaces(pickId) ==
  {<<uid, i>> \in (DOMAIN userPicks) \X (1..MaxPicks) :
     i \in DOMAIN userPicks[uid] /\ userPicks[uid][i].id = pickId}

\* Arguments.
Platforms    == {"reddit", "twitter"}
Usernames    == {"DeepFuckingValue"}
PickSentiments == {"bullish", "bearish", "neutral"}
EntryPrices  == {Num(0), Num(100)}
MarketPrices == {Num(0), Num(130)}

\* The state the constructor leaves: reddit:DeepFuckingValue is tracked.
InitTracking ==
  /\ upc = "constructed"
  /\ trackedUsers = [k \in {keyOf("reddit", "DeepFuckingValue")} |->
                       newUser(1, "reddit", "DeepFuckingValue")]
  /\ userPicks = [i \in {1} |-> <<>>]
  /\ nextUserId = 2
  /\ nextPickId = 1
  /\ ureturned = NoCall
  /\ PumpIdle
  /\ AggIdle
  /\ ScoreIdle

AddTrackedUser ==
  \E platform \in Platforms, username \in Usernames :
    LET key == keyOf(platform, username)
    IN  /\ upc # "idle"
        /\ upc' = "addTrackedUser"
        /\ IF key \in DOMAIN trackedUsers
           THEN /\ ureturned' = trackedUsers[key]
                /\ UNCHANGED <<trackedUsers, userPicks, nextUserId>>
           ELSE LET user == newUser(nextUserId, platform, username)
                IN  /\ trackedUsers' = [k \in DOMAIN trackedUsers \cup {key} |->
                                          IF k = key THEN user ELSE trackedUsers[k]]
                    /\ userPicks' = [i \in DOMAIN userPicks \cup {user.id} |->
                                       IF i = user.id THEN <<>> ELSE userPicks[i]]
                    /\ nextUserId' = nextUserId + 1
                    /\ ureturned' = user
        /\ UNCHANGED <<nextPickId, pumpVars, aggVars, scoreVars>>

RemoveTrackedUser ==
  \E platform \in Platforms, username \in Usernames :
    LET key == keyOf(platform, username)
    IN  /\ upc # "idle"
        /\ upc' = "removeTrackedUser"
        /\ IF key \notin DOMAIN trackedUsers
           THEN /\ ureturned' = FALSE
                /\ UNCHANGED trackedUsers
           ELSE /\ trackedUsers' = [trackedUsers EXCEPT ![key].isActive = FALSE]
                /\ ureturned' = TRUE
        /\ UNCHANGED <<userPicks, nextUserId, nextPickId, pumpVars, aggVars, scoreVars>>

RecordPick ==
  \E platform \in Platforms, username \in Usernames,
     sentiment \in PickSentiments, entryPrice \in EntryPrices :
    LET key == keyOf(platform, username)
    IN  /\ upc # "idle"
        /\ nextPickId <= MaxPicks
        /\ upc' = "recordPick"
        /\ IF key \notin DOMAIN trackedUsers
           THEN /\ ureturned' = <<>>
                /\ UNCHANGED <<trackedUsers, userPicks, nextPickId>>
           ELSE LET user  == trackedUsers[key]
                    pick  == newPick(nextPickId, user.id, sentiment, entryPrice)
                    picks == Append(userPicks[user.id], pick)
                IN  /\ nextPickId' = nextPickId + 1
                    /\ userPicks' = [userPicks EXCEPT ![user.id] = picks]
                    /\ trackedUsers' =
                         [trackedUsers EXCEPT ![key] =
                            updateUserMetrics([user EXCEPT !.totalPicks = user.totalPicks + 1],
                                              picks)]
                    /\ ureturned' = <<pick>>
        /\ UNCHANGED <<nextUserId, pumpVars, aggVars, scoreVars>>

UpdatePickPrice ==
  \E pickId \in 1..MaxPicks, currentPrice \in MarketPrices :
    /\ upc # "idle"
    /\ upc' = "updatePickPrice"
    /\ ureturned' = NoCall
    /\ IF pickPlaces(pickId) = {}
       THEN UNCHANGED <<trackedUsers, userPicks>>
       ELSE LET place == CHOOSE p \in pickPlaces(pickId) : TRUE
                uid   == place[1]
                picks == [userPicks[uid] EXCEPT
                            ![place[2]] = updatePickPrice(userPicks[uid][place[2]], currentPrice)]
                key   == keyOfId(uid)
            IN  /\ userPicks' = [userPicks EXCEPT ![uid] = picks]
                /\ trackedUsers' =
                     [trackedUsers EXCEPT ![key] = updateUserMetrics(trackedUsers[key], picks)]
    /\ UNCHANGED <<nextUserId, nextPickId, pumpVars, aggVars, scoreVars>>

NextTracking ==
  \/ AddTrackedUser
  \/ RemoveTrackedUser
  \/ RecordPick
  \/ UpdatePickPrice

SpecTracking == InitTracking /\ [][NextTracking]_vars

(* ------------------------------------------------------------------ *)
(* Claims about the phase classifier (checked under SpecPump)          *)
(* ------------------------------------------------------------------ *)
\* The four rules as the specification words them (section 4.4).
RuleEarly(m) ==
  /\ m.mentionTrend = "rising" /\ m.sentimentTrend = "improving"
  /\ RGt(m.sentimentScore, Rat(3, 10))
  /\ RLt(Num(2), m.priceMomentum) /\ RLt(m.priceMomentum, Num(15))
  /\ RGt(m.volumeRatio, Rat(6, 5))
RuleMid(m) ==
  /\ RGt(m.sentimentScore, Rat(1, 2))
  /\ RLt(Num(10), m.priceMomentum) /\ RLt(m.priceMomentum, Num(30))
  /\ RGt(m.volumeRatio, Rat(3, 2))
RuleLate(m) ==
  /\ RGt(m.sentimentScore, Rat(7, 10))
  /\ RGt(m.priceMomentum, Num(25))
  /\ (m.mentionTrend = "stable" \/ m.mentionTrend = "declining")
RulePost(m) ==
  /\ m.mentionTrend = "declining" /\ m.sentimentTrend = "declining"
  /\ RLt(m.priceMomentum, Num(-5))
  /\ RLt(m.volumeRatio, Rat(4, 5))

PumpDone == ppc = "done"

\* C1: the phase is the first rule that matches in the order early, mid,
\* late, post; it is "none" exactly when no rule matches; metrics that satisfy
\* the early rule give early even when a later rule matches too.
C1_FirstMatchWins ==
  PumpDone =>
    LET m == presult.metrics
        p == presult.phase
    IN  /\ RuleEarly(m) => p = "early"
        /\ (~RuleEarly(m) /\ RuleMid(m)) => p = "mid"
        /\ (~RuleEarly(m) /\ ~RuleMid(m) /\ RuleLate(m)) => p = "late"
        /\ (~RuleEarly(m) /\ ~RuleMid(m) /\ ~RuleLate(m) /\ RulePost(m)) => p = "post"
        /\ (p = "none") <=> ~(RuleEarly(m) \/ RuleMid(m) \/ RuleLate(m) \/ RulePost(m))

\* C1 witness: the early and the mid rule both match and the phase is early.
C1_Witness ==
  /\ PumpDone
  /\ RuleEarly(presult.metrics) /\ RuleMid(presult.metrics)
  /\ presult.phase = "early"

\* C2: the signal is green for phase early; else green for phase none with
\* sentimentScore > 0.4 and 0 < priceMomentum < 10; else red for phase late or
\* post; else red for sentimentScore < -0.3 or priceMomentum < -10; else yellow.
C2_SignalPriority ==
  PumpDone =>
    LET m == presult.metrics
        p == presult.phase
        expected ==
          CASE p = "early" -> "green"
            [] p = "none" /\ RGt(m.sentimentScore, Rat(2, 5))
                 /\ RLt(Num(0), m.priceMomentum) /\ RLt(m.priceMomentum, Num(10)) -> "green"
            [] p \in {"late", "post"} -> "red"
            [] p \in {"mid", "none"}
                 /\ ~(p = "none" /\ RGt(m.sentimentScore, Rat(2, 5))
                        /\ RLt(Num(0), m.priceMomentum) /\ RLt(m.priceMomentum, Num(10)))
                 /\ (RLt(m.sentimentScore, Rat(-3, 10)) \/ RLt(m.priceMomentum, Num(-10)))
                 -> "red"
            [] OTHER -> "yellow"
    IN  presult.signal = expected

\* C2 witness (scenario B): sentiment 0.8, momentum 30 from the 1-day change
\* alone, stable mentions, volumeRatio 1.0: phase late, signal red.
C2_Witness ==
  /\ PumpDone
  /\ presult.metrics.sentimentScore = Rat(8, 10)
  /\ pinput.priceData.change1d = <<Num(30)>>
  /\ pinput.priceData.change1w = <<>> /\ pinput.priceData.change2w = <<>>
  /\ pinput.priceData.change1m = <<>>
  /\ presult.metrics.priceMomentum = Num(30)
  /\ presult.metrics.mentionTrend = "stable"
  /\ presult.metrics.volumeRatio = Num(1)
  /\ presult.phase = "late" /\ presult.signal = "red"

\* The momentum the specification describes: every present window keeps its
\* own weight (1d 0.4, 1w 0.3, 2w 0.2, 1m 0.1); 0 when no window is present.
OwnWeightMomentum(pd) ==
  LET term(c, w) == IF Len(c) = 1 THEN RMul(c[1], w) ELSE Num(0)
      wgt(c, w)  == IF Len(c) = 1 THEN w ELSE Num(0)
      sum == RAdd(RAdd(term(pd.change1d, Rat(2, 5)), term(pd.change1w, Rat(3, 10))),
                  RAdd(term(pd.change2w, Rat(1, 5)), term(pd.change1m, Rat(1, 10))))
      tot == RAdd(RAdd(wgt(pd.change1d, Rat(2, 5)), wgt(pd.change1w, Rat(3, 10))),
                  RAdd(wgt(pd.change2w, Rat(1, 5)), wgt(pd.change1m, Rat(1, 10))))
  IN  IF tot.n = 0 THEN Num(0) ELSE RDiv(sum, tot)

\* C3: priceMomentum is the weighted mean of the present changes, each window
\* with its own fixed weight, divided by the total weight of the present windows.
C3_OwnWeights ==
  PumpDone => REq(presult.metrics.priceMomentum, OwnWeightMomentum(pinput.priceData))

\* C4 (as claimed): at most one of the four rule conditions is satisfied.
C4_MutuallyExclusive ==
  PumpDone =>
    LET m == presult.metrics
        n(b) == IF b THEN 1 ELSE 0
    IN  n(isEarly(m)) + n(isMid(m)) + n(isLate(m)) + n(isPost(m)) <= 1

\* C4 (amended): only the pairs early/mid and mid/late can be satisfied
\* together, every other pair is exclusive, and in an overlap the evaluation
\* order decides the phase (early before mid, mid before late).
C4_OnlyAdjacentOverlap ==
  PumpDone =>
    LET m == presult.metrics
    IN  /\ ~(isEarly(m) /\ isLate(m))
        /\ ~(isEarly(m) /\ isPost(m))
        /\ ~(isMid(m) /\ isPost(m))
        /\ ~(isLate(m) /\ isPost(m))
        /\ (isEarly(m) /\ isMid(m)) => presult.phase = "early"
        /\ (isMid(m) /\ isLate(m)) => presult.phase = "mid"

\* C4 witness: the mid and the late condition hold together; the phase is mid.
C4_Witness ==
  /\ PumpDone
  /\ isMid(presult.metrics) /\ isLate(presult.metrics)
  /\ presult.phase = "mid"

\* C5: detectPumpPhase is total: the result of every call has a phase among
\* early/mid/late/post/none, a signal among green/yellow/red and a confidence
\* that is a number (not NaN) in [0, 1]; no step of the computation is
\* undefined (a division by zero shows as NaN in the metrics).
C5_Total ==
  PumpDone =>
    /\ presult.phase \in PumpPhases
    /\ presult.signal \in Signals
    /\ IsNum(presult.metrics.priceMomentum)
    /\ IsNum(presult.metrics.volumeRatio)
    /\ IsNum(presult.confidence)
    /\ RGe(presult.confidence, Num(0)) /\ RLe(presult.confidence, Num(1))

\* C5 witness: the all-zero call (score 0, no mentions, no previous values, no
\* price change present, volume 0 and avgVolume 0) returns none / yellow / 0.1.
C5_Witness ==
  /\ PumpDone
  /\ pinput.sentiment.score = Num(0)
  /\ pinput.mentionCount = 0
  /\ pinput.previousMentionCount = <<>> /\ pinput.previousSentiment = <<>>
  /\ presentChanges(pinput.priceData) = <<>>
  /\ pinput.priceData.volume = 0 /\ pinput.priceData.avgVolume = 0
  /\ presult.phase = "none" /\ presult.signal = "yellow"
  /\ presult.confidence = Rat(1, 10)

C15_ConfidenceFormula ==
  PumpDone =>
    LET m == presult.metrics
        aligned == \/ (m.sentimentTrend = "improving" /\ m.mentionTrend = "rising")
                   \/ (m.sentimentTrend = "declining" /\ m.mentionTrend = "declining")
        t == IF aligned THEN Rat(1, 5) ELSE Rat(1, 10)
        sum == RAdd(RAdd(RMul(RAbs(m.sentimentScore), Rat(3, 10)),
                         RMul(RMin(Num(1), RAbs(RSub(m.volumeRatio, Num(1)))), Rat(1, 4))),
                    RAdd(RMul(RMin(Num(1), RDiv(RAbs(m.priceMomentum), Num(20))), Rat(1, 4)),
                         t))
    IN  REq(presult.confidence, RMin(Num(1), sum))

\* C15 witness: score 0.3, volumeRatio 0.5, momentum -12, both trends
\* declining: 0.09 + 0.125 + 0.15 + 0.2 = 0.565.
C15_Witness ==
  /\ PumpDone
  /\ presult.metrics.sentimentScore = Rat(3, 10)
  /\ presult.metrics.volumeRatio = Rat(1, 2)
  /\ presult.metrics.priceMomentum = Num(-12)
  /\ presult.metrics.sentimentTrend = "declining"
  /\ presult.metrics.mentionTrend = "declining"
  /\ presult.confidence = Rat(113, 200)

\* C16: sentimentTrend is improving if score - previousScore > 0.1, declining
\* if < -0.1, else stable, and stable when no previous sentiment is supplied;
\* mentionTrend is rising if the relative change of the mention count is
\* > 20%, declining if < -20%, else stable, and stable when the previous count
\* is absent or zero.
C16_Trends ==
  PumpDone =>
    LET prevS == pinput.previousSentiment
        prevM == pinput.previousMentionCount
        diff == RSub(pinput.sentiment.score, prevS[1].score)
        rel == Rat(pinput.mentionCount - prevM[1], prevM[1])
        sTrend == IF prevS = <<>> THEN "stable"
                  ELSE IF RGt(diff, Rat(1, 10)) THEN "improving"
                  ELSE IF RLt(diff, Rat(-1, 10)) THEN "declining"
                  ELSE "stable"
        mTrend == IF prevM = <<>> THEN "stable"
                  ELSE IF prevM[1] = 0 THEN "stable"
                  ELSE IF RGt(rel, Rat(20, 100)) THEN "rising"
                  ELSE IF RLt(rel, Rat(-20, 100)) THEN "declining"
                  ELSE "stable"
    IN  /\ presult.metrics.sentimentTrend = sTrend
        /\ presult.metrics.mentionTrend = mTrend

\* C16 witness: previous count 0 with 150 mentions now gives a stable mention
\* trend, while the sentiment went from 0.2 to 0.6 and is improving.
C16_Witness ==
  /\ PumpDone
  /\ pinput.previousMentionCount = <<0>>
  /\ pinput.mentionCount = 150
  /\ presult.metrics.mentionTrend = "stable"
  /\ pinput.previousSentiment = <<[score |-> Rat(2, 10)]>>
  /\ pinput.sentiment.score = Rat(6, 10)
  /\ presult.metrics.sentimentTrend = "improving"

\* C17: priceMomentum is exactly 0 when none of the four changes is present;
\* volumeRatio is volume / avgVolume when avgVolume > 0 and exactly 1 when
\* avgVolume is 0.
C17_Boundaries ==
  PumpDone =>
    LET pd == pinput.priceData
        m == presult.metrics
    IN  /\ (pd.change1d = <<>> /\ pd.change1w = <<>> /\ pd.change2w = <<>>
              /\ pd.change1m = <<>>) => m.priceMomentum = Num(0)
        /\ pd.avgVolume > 0 => m.volumeRatio = Rat(pd.volume, pd.avgVolume)
        /\ pd.avgVolume = 0 => m.volumeRatio = Num(1)

\* C17 witness: no change present and avgVolume 0 with volume 20: momentum 0
\* and volumeRatio 1.
C17_Witness ==
  /\ PumpDone
  /\ presentChanges(pinput.priceData) = <<>>
  /\ pinput.priceData.avgVolume = 0
  /\ pinput.priceData.volume = 20
  /\ presult.metrics.priceMomentum = Num(0)
  /\ presult.metrics.volumeRatio = Num(1)

\* metric combinations on and around every threshold of the four rules
MetricCombinations ==
  [sentimentScore : {Rat(k, 10) : k \in {-4, 3, 5, 7, 8, 10}},
   sentimentTrend : {"improving", "stable", "declining"},
   mentionVolume  : {0},
   mentionTrend   : {"rising", "stable", "declining"},
   priceMomentum  : {Num(k) : k \in {-12, -6, -5, 0, 12, 25, 26, 30, 40}},
   volumeRatio    : {Rat(k, 10) : k \in {5, 8, 10, 20}}]

\* C24 (as claimed): some metric combinations satisfy the late and the post
\* rule at once, and every such combination is classified late.
C24_LateAndPostOverlap ==
  /\ PumpDone =>
       ((isLate(presult.metrics) /\ isPost(presult.metrics)) => presult.phase = "late")
  /\ \E m \in MetricCombinations : isLate(m) /\ isPost(m)

\* C24 (amended): the late and the post rule are never satisfied together
\* (late needs priceMomentum > 25, post needs priceMomentum < -5), so their
\* order decides nothing: metrics that satisfy the post rule are classified
\* post, and metrics that satisfy the late rule are classified late unless
\* the mid rule matches too.
C24_LateExcludesPost ==
  PumpDone =>
    LET m == presult.metrics
    IN  /\ ~(isLate(m) /\ isPost(m))
        /\ isPost(m) => presult.phase = "post"
        /\ (isLate(m) /\ ~isMid(m)) => presult.phase = "late"

\* C24 witness: metrics that satisfy the post rule (and not the late rule)
\* were classified post.
C24_Witness ==
  /\ PumpDone
  /\ isPost(presult.metrics)
  /\ ~isLate(presult.metrics)
  /\ presult.metrics.sentimentScore = Rat(3, 10)
  /\ presult.phase = "post"

\* C25: whenever the phase is mid the signal is yellow, and the signal is
\* green only when the phase is early or none: a mid, late or post phase
\* never yields green.
C25_MidIsYellow ==
  PumpDone =>
    /\ presult.phase = "mid" => presult.signal = "yellow"
    /\ presult.signal = "green" => presult.phase \in {"early", "none"}
    /\ presult.phase \in {"mid", "late", "post"} => presult.signal # "green"

\* C25 witness: a mid phase with its yellow signal.
C25_Witness ==
  /\ PumpDone
  /\ presult.phase = "mid"
  /\ presult.signal = "yellow"
  /\ presult.metrics.mentionTrend = "rising"

\* C26: every route that classifies a stock calls detectPumpPhase without
\* previousMentionCount and previousSentiment, so in every response both
\* trends are stable and the phase is mid, late or none (early and post are
\* unreachable), and a green signal comes with phase none only.
C26_RoutesNeverEarlyOrPost ==
  ppc \in Routes =>
    /\ presult.metrics.sentimentTrend = "stable"
    /\ presult.metrics.mentionTrend = "stable"
    /\ presult.phase \in {"mid", "late", "none"}
    /\ presult.signal = "green" => presult.phase = "none"

\* C26 witness: /top-today answered green for a stock with phase none.
C26_Witness ==
  /\ ppc = "top-today"
  /\ presult.phase = "none"
  /\ presult.signal = "green"
  /\ presult.metrics.sentimentTrend = "stable"
  /\ presult.metrics.mentionTrend = "stable"

(* ------------------------------------------------------------------ *)
(* Claims about the aggregator (checked under SpecAgg)                 *)
(* ------------------------------------------------------------------ *)
AggResolved == apc = "resolved"

\* the data points the three fetches delivered, in the fixed source order
DeliveredPoints ==
  promises["finnhub"].value \o promises["alphaVantage"].value \o promises["reddit"].value

SourceName(s) ==
  CASE s = "finnhub" -> "Finnhub (Reddit + Twitter)"
    [] s = "alphaVantage" -> "Alpha Vantage (News)"
    [] s = "reddit" -> "Reddit (Weighted)"

\* the source weight the specification gives a data point (0.35 / 0.30 / 0.35)
SpecWeight(p) ==
  CASE p.source = "finnhub" -> Rat(35, 100)
    [] p.source = "alpha_vantage" -> Rat(30, 100)
    [] p.source = "reddit" -> Rat(35, 100)

InRange(p) ==
  /\ RGe(p.score, Num(-1)) /\ RLe(p.score, Num(1))
  /\ RGe(p.confidence, Num(0)) /\ RLe(p.confidence, Num(1))

\* C6: with zero data points (all three sources unavailable) the result has
\* overallScore 0, confidence 0, no sources used, totalMentions 0, label Neutral.
C6_ZeroPoints ==
  (AggResolved /\ DeliveredPoints = <<>>) =>
    /\ aresult.overallScore = Num(0)
    /\ aresult.confidence = Num(0)
    /\ aresult.sourcesUsed = <<>>
    /\ DOMAIN aresult.sources = {}
    /\ aresult.totalMentions = 0
    /\ aresult.overallLabel = "Neutral"

\* C6 witness: one source threw, the other two had nothing; the call resolved
\* with the all-zero result.
C6_Witness ==
  /\ AggResolved
  /\ returned["finnhub"] = "threw"
  /\ returned["alphaVantage"] = "nothing" /\ returned["reddit"] = "nothing"
  /\ aresult.overallScore = Num(0) /\ aresult.confidence = Num(0)
  /\ aresult.sourcesUsed = <<>>

\* C7: with exactly one data point, of any source, with score in [-1, 1] and
\* confidence in [0, 1], overallScore equals the point's score and sourcesUsed
\* has length 1.
C7_SinglePointScore ==
  (AggResolved /\ Len(DeliveredPoints) = 1 /\ InRange(DeliveredPoints[1])) =>
    /\ REq(aresult.overallScore, DeliveredPoints[1].score)
    /\ Len(aresult.sourcesUsed) = 1

\* C8: aggregateSentiment never rejects, whatever each of the three
\* collaborators does (data, null / empty, exception), and the result it
\* resolves with is built from exactly the sources that returned data.
C8_NeverRejects ==
  /\ apc # "rejected"
  /\ AggResolved =>
       LET withData == {s \in DOMAIN returned : returned[s] = "data"}
       IN  /\ DOMAIN aresult.sources = withData
           /\ Len(aresult.sourcesUsed) = Cardinality(withData)
           /\ \A s \in DOMAIN returned :
                (s \in withData) <=>
                  (\E i \in 1..Len(aresult.sourcesUsed) : aresult.sourcesUsed[i] = SourceName(s))
           /\ \A s \in withData :
                /\ aresult.sources[s].score = promises[s].value[1].score
                /\ aresult.sources[s].confidence = promises[s].value[1].confidence

\* C8 witness: Finnhub threw, Alpha Vantage had nothing, Reddit returned
\* posts; the call resolved with Reddit as the only source used.
C8_Witness ==
  /\ AggResolved
  /\ returned["finnhub"] = "threw"
  /\ returned["alphaVantage"] = "nothing"
  /\ returned["reddit"] = "data"
  /\ aresult.sourcesUsed = <<"Reddit (Weighted)">>

\* C9: whatever the order in which the three concurrent fetches complete,
\* sourcesUsed lists exactly the sources that delivered a data point, in the
\* order Finnhub, Alpha Vantage, Reddit, and the result is the one built from
\* the three delivered values taken by source, not by completion.
C9_FixedOrder ==
  AggResolved =>
    /\ aresult.sourcesUsed =
         (IF promises["finnhub"].value # <<>> THEN <<SourceName("finnhub")>> ELSE <<>>)
           \o (IF promises["alphaVantage"].value # <<>> THEN <<SourceName("alphaVantage")>> ELSE <<>>)
           \o (IF promises["reddit"].value # <<>> THEN <<SourceName("reddit")>> ELSE <<>>)
    /\ aresult = aggregateFrom(promises["finnhub"].value, promises["alphaVantage"].value,
                               promises["reddit"].value)

\* C9 witness: the fetches completed in the order Reddit, Alpha Vantage,
\* Finnhub, each with data, and sourcesUsed is in the fixed order.
C9_Witness ==
  /\ AggResolved
  /\ order = <<"reddit", "alphaVantage", "finnhub">>
  /\ \A s \in DOMAIN returned : returned[s] = "data"
  /\ aresult.sourcesUsed =
       <<"Finnhub (Reddit + Twitter)", "Alpha Vantage (News)", "Reddit (Weighted)">>

\* C10: for one or more data points overallScore is
\* sum(score * sourceWeight * confidence) / sum(sourceWeight * confidence) with
\* source weights 0.35 / 0.30 / 0.35, and it lies in [-1, 1] whenever every
\* point has its score in [-1, 1] and its confidence in [0, 1]. (Stated for
\* points in those ranges and without the division, overallScore * sum = sum,
\* so that a zero sum of weights, where the quotient is undefined and the
\* code returns 0, does not count against the claim.)
C10_WeightedMean ==
  (AggResolved /\ Len(DeliveredPoints) >= 1
     /\ \A i \in 1..Len(DeliveredPoints) : InRange(DeliveredPoints[i])) =>
    LET ps == DeliveredPoints
        num == RSum([i \in 1..Len(ps) |->
                       RMul(ps[i].score, RMul(SpecWeight(ps[i]), ps[i].confidence))])
        den == RSum([i \in 1..Len(ps) |-> RMul(SpecWeight(ps[i]), ps[i].confidence)])
    IN  /\ REq(RMul(aresult.overallScore, den), num)
        /\ RGe(aresult.overallScore, Num(-1)) /\ RLe(aresult.overallScore, Num(1))

\* C11: for one or more data points the aggregate confidence is
\* 0.7 * (mean of the points' confidences) + 0.3 * min(pointCount / 3, 1), and
\* it lies in [0, 1] whenever every point's confidence is in [0, 1]. (A point
\* whose confidence is NaN makes both sides NaN.)
C11_ConfidenceBlend ==
  (AggResolved /\ Len(DeliveredPoints) >= 1) =>
    LET ps == DeliveredPoints
        n == Len(ps)
        mean == RDiv(RSum([i \in 1..n |-> ps[i].confidence]), Num(n))
        bonus == RMin(RDiv(Num(n), Num(3)), Num(1))
        expected == RAdd(RMul(Rat(7, 10), mean), RMul(Rat(3, 10), bonus))
    IN  /\ aresult.confidence = expected
        /\ (\A i \in 1..n : RGe(ps[i].confidence, Num(0)) /\ RLe(ps[i].confidence, Num(1)))
             => (RGe(aresult.confidence, Num(0)) /\ RLe(aresult.confidence, Num(1)))

\* C11 witness: Finnhub (confidence 1/2) and Alpha Vantage (confidence 11/40)
\* delivered a point each, Reddit none: confidence is
\* 0.7 * (31/80) + 0.3 * (2/3) = 377/800.
C11_Witness ==
  /\ AggResolved
  /\ Len(DeliveredPoints) = 2
  /\ returned["reddit"] = "nothing"
  /\ promises["finnhub"].value[1].confidence = Rat(1, 2)
  /\ promises["alphaVantage"].value[1].confidence = Rat(11, 40)
  /\ aresult.confidence = Rat(377, 800)

\* the key of the per-source breakdown that belongs to a data point
SourceKey(p) ==
  CASE p.source = "finnhub" -> "finnhub"
    [] p.source = "alpha_vantage" -> "alphaVantage"
    [] p.source = "reddit" -> "reddit"

\* C12: the weight recorded for a source in the per-source breakdown is the
\* weight applied to that source's score in the overall weighted average:
\* with the recorded weights w, overallScore * sum(w * confidence) equals
\* sum(score * w * confidence). (Stated for points with score in [-1, 1] and
\* confidence in [0, 1].)
C12_RecordedWeightApplied ==
  (AggResolved /\ Len(DeliveredPoints) >= 1
     /\ \A i \in 1..Len(DeliveredPoints) : InRange(DeliveredPoints[i])) =>
    LET ps == DeliveredPoints
        w(q) == aresult.sources[SourceKey(q)].weight
        num == RSum([i \in 1..Len(ps) |-> RMul(ps[i].score, RMul(w(ps[i]), ps[i].confidence))])
        den == RSum([i \in 1..Len(ps) |-> RMul(w(ps[i]), ps[i].confidence)])
    IN  REq(RMul(aresult.overallScore, den), num)

\* C18: a source adapter yields null, so that the source is absent from
\* sourcesUsed and from the breakdown, whenever its source has no usable
\* data: the collaborator is unconfigured, its feed is empty, or nothing
\* remains after filtering.
C18_NullWhenNoUsableData ==
  \A s \in DOMAIN feeds :
    feeds[s] \in {"unconfigured", "empty", "filtered"} =>
      /\ promises[s] = Fulfilled(<<>>)
      /\ AggResolved =>
           /\ s \notin DOMAIN aresult.sources
           /\ \A i \in 1..Len(aresult.sourcesUsed) : aresult.sourcesUsed[i] # SourceName(s)

\* C18 witness: Finnhub unconfigured, every news article filtered out, no
\* Reddit post found: the call resolved with no source used.
C18_Witness ==
  /\ AggResolved
  /\ feeds["finnhub"] = "unconfigured"
  /\ feeds["alphaVantage"] = "filtered"
  /\ feeds["reddit"] = "empty"
  /\ DOMAIN aresult.sources = {}
  /\ aresult.sourcesUsed = <<>>

(* ------------------------------------------------------------------ *)
(* Claims about the scoring functions (checked under SpecScoring)      *)
(* ------------------------------------------------------------------ *)
\* C13: the overall label is a total function of the score: > 0.5 Very
\* Bullish, > 0.15 Bullish, >= -0.15 Neutral, >= -0.5 Bearish, otherwise Very
\* Bearish; every score in [-1, 1] gets exactly one of the five labels, and
\* the boundary values 0.5, 0.15, -0.15, -0.5 get Bullish, Neutral, Neutral,
\* Bearish.
C13_LabelThresholds ==
  spc = "labelSentiment" =>
    /\ sresult \in {"Very Bullish", "Bullish", "Neutral", "Bearish", "Very Bearish"}
    /\ sresult = "Very Bullish" <=> RGt(sinput, Rat(1, 2))
    /\ sresult = "Bullish" <=> (RGt(sinput, Rat(3, 20)) /\ RLe(sinput, Rat(1, 2)))
    /\ sresult = "Neutral" <=> (RGe(sinput, Rat(-3, 20)) /\ RLe(sinput, Rat(3, 20)))
    /\ sresult = "Bearish" <=> (RGe(sinput, Rat(-1, 2)) /\ RLt(sinput, Rat(-3, 20)))
    /\ sresult = "Very Bearish" <=> RLt(sinput, Rat(-1, 2))
    /\ sinput = Rat(1, 2) => sresult = "Bullish"
    /\ sinput = Rat(3, 20) => sresult = "Neutral"
    /\ sinput = Rat(-3, 20) => sresult = "Neutral"
    /\ sinput = Rat(-1, 2) => sresult = "Bearish"

\* C13 witness: the boundary score -0.15 was labelled Neutral.
C13_Witness ==
  /\ spc = "labelSentiment"
  /\ sinput = Rat(-3, 20)
  /\ sresult = "Neutral"

\* C19: in every result of analyzeSentiment, analyzeWeighted and
\* analyzeStockSentiment the label is the fixed function of the returned
\* score (>= 0.05 positive, <= -0.05 negative, else neutral) and the
\* confidence is |score|.
C19_LabelOfReturnedScore ==
  spc \in {"analyzeSentiment", "analyzeWeighted", "analyzeStockSentiment"} =>
    /\ sresult.label =
         (IF RGe(sresult.score, Rat(1, 20)) THEN "positive"
          ELSE IF RLe(sresult.score, Rat(-1, 20)) THEN "negative"
          ELSE "neutral")
    /\ sresult.confidence = RAbs(sresult.score)

\* C19 witness: a text that the lexicon scores 0 and that names one bullish
\* keyword gets the adjusted score 0.1 and the label positive.
C19_Witness ==
  /\ spc = "analyzeStockSentiment"
  /\ sinput.vader.compound = Num(0)
  /\ sinput.tokens = <<"moon">>
  /\ sresult.score = Rat(1, 10)
  /\ sresult.label = "positive"
  /\ sresult.confidence = Rat(1, 10)

\* the set of the entries of a list
Distinct(keywords) == {keywords[i] : i \in 1..Len(keywords)}

\* C20: the domain-adjusted score is clamp(base + 0.1 * (number of distinct
\* bullish keywords occurring in the lowercased text) - 0.1 * (number of
\* distinct bearish keywords occurring), -1, 1), each keyword counting at
\* most once, and the label is recomputed from the clamped score.
C20_OncePerKeyword ==
  spc = "analyzeStockSentiment" =>
    LET lowerText == toLowerCase(sinput.tokens)
        base == analyzeSentiment(sinput).score
        bullish == Cardinality({k \in Distinct(bullishKeywords) : includes(lowerText, k)})
        bearish == Cardinality({k \in Distinct(bearishKeywords) : includes(lowerText, k)})
        raw == RAdd(base, Rat(bullish - bearish, 10))
        clamped == IF RGt(raw, Num(1)) THEN Num(1)
                   ELSE IF RLt(raw, Num(-1)) THEN Num(-1) ELSE raw
    IN  /\ REq(sresult.score, clamped)
        /\ sresult.label =
             (IF RGe(clamped, Rat(1, 20)) THEN "positive"
              ELSE IF RLe(clamped, Rat(-1, 20)) THEN "negative"
              ELSE "neutral")

\* the score of a text as the single-text scorer defines it
TextScore(text) == IF text.blank THEN Num(0) ELSE text.vader.compound

\* C21: the weighted batch replaces every weight below 1 by 1 and returns the
\* weight-normalized mean of the item scores; when all supplied weights are
\* <= 0 the result is the unweighted mean of the item scores; an empty item
\* list yields the neutral-zero score.
C21_ClampedWeightedMean ==
  spc = "analyzeWeighted" =>
    LET n == Len(sinput)
        w == [i \in 1..n |-> IF RLt(sinput[i].weight, Num(1)) THEN Num(1)
                             ELSE sinput[i].weight]
        mean == RDiv(RSum([i \in 1..n |-> RMul(TextScore(sinput[i].text), w[i])]), RSum(w))
        plain == RDiv(RSum([i \in 1..n |-> TextScore(sinput[i].text)]), Num(n))
    IN  IF n = 0
        THEN /\ sresult.score = Num(0) /\ sresult.label = "neutral"
             /\ sresult.confidence = Num(0)
        ELSE /\ REq(sresult.score, mean)
             /\ (\A i \in 1..n : RLe(sinput[i].weight, Num(0))) => REq(sresult.score, plain)

\* C21 witness (scenario D): two items with weight -2 each, scored 0.95 and
\* -1: the result is their unweighted mean -0.025.
C21_Witness ==
  /\ spc = "analyzeWeighted"
  /\ Len(sinput) = 2
  /\ sinput[1].weight = Num(-2) /\ sinput[2].weight = Num(-2)
  /\ TextScore(sinput[1].text) = Rat(19, 20)
  /\ TextScore(sinput[2].text) = Num(-1)
  /\ sresult.score = Rat(-1, 40)

\* C22: every breakdown returned has non-negative positive / neutral /
\* negative parts that sum to 1 (each analyzed text's own breakdown summing
\* to 1): for the weighted batch with any non-empty item list and any
\* weights, and {0, 1, 0} for empty input.
C22_BreakdownSumsToOne ==
  spc \in {"analyzeSentiment", "analyzeWeighted", "analyzeStockSentiment"} =>
    LET b == sresult.breakdown
    IN  /\ RGe(b.positive, Num(0)) /\ RGe(b.neutral, Num(0)) /\ RGe(b.negative, Num(0))
        /\ REq(RAdd(b.positive, RAdd(b.neutral, b.negative)), Num(1))
        /\ (spc = "analyzeWeighted" /\ Len(sinput) = 0) =>
             b = [positive |-> Num(0), neutral |-> Num(1), negative |-> Num(0)]

\* C22 witness: a batch of two different texts with weights 3 and 0.5
\* (counted as 1): breakdown (3 * {0, 1/4, 3/4} + {4/5, 1/5, 0}) / 4.
C22_Witness ==
  /\ spc = "analyzeWeighted"
  /\ Len(sinput) = 2
  /\ sinput[1].weight = Num(3) /\ sinput[2].weight = Rat(1, 2)
  /\ ~sinput[1].text.blank /\ sinput[1].text.vader.compound = Num(-1)
  /\ ~sinput[2].text.blank /\ sinput[2].text.vader.compound = Rat(19, 20)
  /\ sresult.breakdown =
       [positive |-> Rat(1, 5), neutral |-> Rat(19, 80), negative |-> Rat(9, 16)]

\* C23: scoring an empty or whitespace-only text returns score 0, label
\* neutral, confidence 0 and breakdown {0, 1, 0}, whatever the polarity
\* analyzer would make of the text (it is not asked).
C23_BlankIsNeutralZero ==
  (spc = "analyzeSentiment" /\ sinput.blank) =>
    sresult = [score |-> Num(0), label |-> "neutral", confidence |-> Num(0),
               breakdown |-> [positive |-> Num(0), neutral |-> Num(1),
                              negative |-> Num(0)]]

\* C23 witness: a blank text for which the analyzer would have answered
\* 0.95 was scored 0, neutral.
C23_Witness ==
  /\ spc = "analyzeSentiment"
  /\ sinput.blank
  /\ sinput.vader.compound = Rat(19, 20)
  /\ sresult.score = Num(0)
  /\ sresult.label = "neutral"

(* ------------------------------------------------------------------ *)
(* Claims about user tracking (checked under SpecTracking)             *)
(* ------------------------------------------------------------------ *)
AllPicks == {userPicks[uid][i] : <<uid, i>> \in
               {pl \in (DOMAIN userPicks) \X (1..MaxPicks) : pl[2] \in DOMAIN userPicks[pl[1]]}}

\* Each key holds the record of its own (platform, username), and no two
\* keys share an id: one record, one id, per (platform, username).
OneRecordPerUser ==
  /\ \A k \in DOMAIN trackedUsers :
       k = keyOf(trackedUsers[k].platform, trackedUsers[k].username)
  /\ \A k1, k2 \in DOMAIN trackedUsers :
       trackedUsers[k1].id = trackedUsers[k2].id => k1 = k2
  /\ DOMAIN userPicks = {trackedUsers[k].id : k \in DOMAIN trackedUsers}

\* C27: after any sequence of addTrackedUser, removeTrackedUser, recordPick
\* and updatePickPrice calls, the user a call of addTrackedUser returns is
\* active and is listed by getAllTrackedUsers(), and there is at most one
\* record (one id) per (platform, username).
C27_AddLeavesUserTracked ==
  upc = "addTrackedUser" =>
    /\ ureturned.isActive
    /\ \E i \in DOMAIN getAllTrackedUsers : getAllTrackedUsers[i] = ureturned
    /\ OneRecordPerUser

\* The half of C27 that the code keeps: a (platform, username) never gets a
\* second record or a second id, whatever was added or removed.
C27_OneIdPerUser == upc # "idle" => OneRecordPerUser

\* C28: in every state reached by recordPick and updatePickPrice every
\* tracked user's reputationScore is at most 69, and so no user's trust level
\* is 'expert'.
C28_ReputationAtMost69 ==
  upc # "idle" =>
    \A k \in DOMAIN trackedUsers :
      /\ XLe(trackedUsers[k].reputationScore, Num(69))
      /\ trackedUsers[k].trustLevel # "expert"

\* What the code keeps of C28: the score is NaN or at most 69, it is NaN only
\* for a user with a pick of entryPrice 0, and no user is ever 'expert'.
C28_AtMost69OrNaN ==
  upc # "idle" =>
    \A k \in DOMAIN trackedUsers :
      LET user == trackedUsers[k]
      IN  /\ IsNaN(user.reputationScore) \/ XLe(user.reputationScore, Num(69))
          /\ IsNaN(user.reputationScore) =>
               \E p \in AllPicks : p.userId = user.id /\ p.entryPrice = Num(0)
          /\ user.trustLevel # "expert"

\* C29: for a pick with positive entryPrice no step takes the outcome back
\* to 'pending', a 'successful' outcome stays 'successful', peakPrice never
\* decreases and lowestPrice never increases, and a pick with neutral
\* sentiment stays 'pending'.
C29_OutcomeMovesForward ==
  [][\A uid \in DOMAIN userPicks : \A i \in DOMAIN userPicks[uid] :
       LET before == userPicks[uid][i]
           after  == userPicks'[uid][i]
       IN  XGt(before.entryPrice, Num(0)) =>
             /\ before.outcome # "pending" => after.outcome # "pending"
             /\ before.outcome = "successful" => after.outcome = "successful"
             /\ XGe(after.peakPrice, before.peakPrice)
             /\ XLe(after.lowestPrice, before.lowestPrice)
             /\ before.sentiment = "neutral" =>
                  before.outcome = "pending" /\ after.outcome = "pending"]_vars

\* A bullish pick that rose to 130 from 100 and then fell to 0 is still
\* successful; a neutral pick whose price moved is still pending.
C29_Witness ==
  /\ upc = "updatePickPrice"
  /\ \E p \in AllPicks :
       /\ p.sentiment = "bullish" /\ p.entryPrice = Num(100)
       /\ p.peakPrice = Num(130) /\ p.currentPrice = Num(0)
       /\ p.outcome = "successful"
  /\ \E p \in AllPicks :
       /\ p.sentiment = "neutral" /\ p.entryPrice = Num(100)
       /\ p.currentPrice # Num(100) /\ p.outcome = "pending"

\* C30: isPennyStock(price, marketCap) is true exactly when marketCap is
\* known (defined, a number, not 0) and below $300M, and false otherwise; the
\* result is the same for every price.
C30_PennyIgnoresPrice ==
  spc = "isPennyStock" =>
    LET marketCap == sinput.marketCap
        known     == marketCap # <<>> /\ IsNum(marketCap[1]) /\ marketCap[1] # Num(0)
    IN  /\ sresult.returned = (known /\ RLt(marketCap[1], Num(300)))
        /\ \A price \in SharePrices : isPennyStock(price, marketCap) = sresult.returned

\* A $1000 share of a company worth $49M is a penny stock.
C30_Witness ==
  /\ spc = "isPennyStock"
  /\ sinput.price = Num(1000) /\ sinput.marketCap = <<Num(49)>>
  /\ sresult.returned = TRUE

====
